---- MODULE Spec2Model ----
(***************************************************************************)
(* CipherChat (Namoj-design/AES-Project): the WebSocket relay servers, the *)
(* crypto helpers of client/utils/crypto.js and the relay chat client.     *)
(*                                                                         *)
(* WebCrypto itself is outside the repository.  It is idealised the usual  *)
(* way: ECDH is exponentiation in a small prime-order-like group, SHA-256  *)
(* and HKDF are collision free (a digest is the tagged value it was        *)
(* computed from), and AES-GCM is a keystream cipher whose 16-byte tag is  *)
(* a fingerprint of (key, iv, associated data, ciphertext).                *)
(***************************************************************************)
EXTENDS Integers, Sequences, FiniteSets, TLC

\* ------------------------------------------------------------------ bounds
\* Raw byte strings handed to the salt computation: bytes 0..MaxByte, length
\* at most MaxLen.
MaxByte == 2
MaxLen == 2
\* Private scalars are drawn from 1..MaxPriv.
MaxPriv == 3
\* Plaintexts are strings of at most MaxStrLen code units.
MaxStrLen == 2
\* The random source returns one of the draws 0..MaxRand.
MaxRand == 1
\* At most MaxCalls encrypt calls are made under one key.
MaxCalls == 2
\* At most MaxConns connections are ever accepted by the relay.
MaxConns == 3
\* The two users of the chat page click at most MaxClicks buttons in all.
MaxClicks == 7
\* A run of one page alone goes on for MaxEvents clicks and deliveries.
MaxEvents == 3
\* The clients of the relay send at most MaxSends frames in all.
MaxSends == 2
\* The users of the two-panel demo click at most MaxDemoClicks buttons.
MaxDemoClicks == 6

\* An optional value is a sequence of length 0 or 1.
Absent == <<>>
Some(x) == <<x>>

Min(x, y) == IF x <= y THEN x ELSE y

RECURSIVE SeqsUpTo(_, _)
SeqsUpTo(S, n) ==
  IF n = 0 THEN {<<>>}
  ELSE LET shorter == SeqsUpTo(S, n - 1)
       IN shorter \cup {Append(s, x) : s \in {t \in shorter : Len(t) = n - 1}, x \in S}

ByteStrings == SeqsUpTo(0..MaxByte, MaxLen)
Privs == 1..MaxPriv

\* ------------------------------------------------- ECDH on the named curve
\* The curve group is stood for by the multiplicative group modulo CurveP
\* with generator CurveG; a private key is a scalar, a public key a group
\* element.
CurveP == 11
CurveG == 2

RECURSIVE ModExp(_, _)
ModExp(base, e) == IF e = 0 THEN 1 ELSE (base * ModExp(base, e - 1)) % CurveP

\* genECDH with the random scalar made explicit.
genECDH(scalar) == [privateKey |-> scalar, publicKey |-> ModExp(CurveG, scalar)]

\* crypto.subtle.exportKey("raw", pub): the uncompressed-point marker 0x04
\* followed by the coordinates.
PointPrefix == 4
exportRaw(pubKey) == <<PointPrefix, pubKey>>

\* crypto.subtle.importKey("raw", ...): rejects a wrong length, a wrong
\* marker and a value that is no point of the curve.
ImportError == -1
importRaw(raw) ==
  IF Len(raw) = 2 /\ raw[1] = PointPrefix /\ raw[2] \in 1..(CurveP - 1)
  THEN raw[2] ELSE ImportError

\* crypto.subtle.deriveBits({name:"ECDH", public}, private, 256)
deriveBits(myPrivate, peerPublic) == ModExp(peerPublic, myPrivate)

\* ------------------------------------------------ Uint8Array helpers
RECURSIVE CompareFrom(_, _, _)
CompareFrom(a, b, i) ==
  IF i > Min(Len(a), Len(b)) THEN Len(a) - Len(b)
  ELSE IF a[i] < b[i] THEN -1
  ELSE IF a[i] > b[i] THEN 1
  ELSE CompareFrom(a, b, i + 1)

\* A comparison that forgets the final length comparison.
RECURSIVE CompareNoLengthFrom(_, _, _)
CompareNoLengthFrom(a, b, i) ==
  IF i > Min(Len(a), Len(b)) THEN 0
  ELSE IF a[i] < b[i] THEN -1
  ELSE IF a[i] > b[i] THEN 1
  ELSE CompareNoLengthFrom(a, b, i + 1)

CompareNoLength(a, b) == CompareNoLengthFrom(a, b, 1)

compareUint8Arrays(a, b) == CompareFrom(a, b, 1)

concatUint8(a, b) == a \o b

\* crypto.subtle.digest("SHA-256", data), collision free.
Sha256(data) == <<"SHA-256", data>>

\* A salt that concatenates in call order, without ordering the keys.
SaltUnordered(myPubRaw, peerPubRaw) == Sha256(concatUint8(myPubRaw, peerPubRaw))

\* The deterministic salt of deriveAesKeyFromECDH.
AgreementSalt(myPubRaw, peerPubRaw) ==
  Sha256(IF compareUint8Arrays(myPubRaw, peerPubRaw) <= 0
         THEN concatUint8(myPubRaw, peerPubRaw)
         ELSE concatUint8(peerPubRaw, myPubRaw))

\* HKDF-SHA256 to an AES-GCM key: the key is what it was derived from.
Hkdf(ikm, salt, info) == [ikm |-> ikm, salt |-> salt, info |-> info]

CryptoJsInfo == "CipherChat AES-GCM key"

deriveAesKeyFromECDH(myPrivate, peerPublic, myPubRaw, peerPubRaw) ==
  Hkdf(deriveBits(myPrivate, peerPublic),
       AgreementSalt(myPubRaw, peerPubRaw),
       CryptoJsInfo)

\* ------------------------------------------------------- text encoding
\* A JavaScript string is a sequence of UTF-16 code units.
IsHighSurrogate(u) == u \in 55296..56319
IsLowSurrogate(u) == u \in 56320..57343

Utf8Bytes(cp) ==
  IF cp < 128 THEN <<cp>>
  ELSE IF cp < 2048 THEN <<192 + (cp \div 64), 128 + (cp % 64)>>
  ELSE IF cp < 65536
    THEN <<224 + (cp \div 4096), 128 + ((cp \div 64) % 64), 128 + (cp % 64)>>
  ELSE <<240 + (cp \div 262144), 128 + ((cp \div 4096) % 64),
         128 + ((cp \div 64) % 64), 128 + (cp % 64)>>

\* encoder.encode(str): UTF-8; a surrogate pair is one code point, a lone
\* surrogate is replaced by U+FFFD.
RECURSIVE Utf8Encode(_)
Utf8Encode(str) ==
  IF str = <<>> THEN <<>>
  ELSE IF IsHighSurrogate(str[1]) /\ Len(str) >= 2 /\ IsLowSurrogate(str[2])
    THEN Utf8Bytes(65536 + (str[1] - 55296) * 1024 + (str[2] - 56320))
           \o Utf8Encode(Tail(Tail(str)))
  ELSE IF IsHighSurrogate(str[1]) \/ IsLowSurrogate(str[1])
    THEN Utf8Bytes(65533) \o Utf8Encode(Tail(str))
  ELSE Utf8Bytes(str[1]) \o Utf8Encode(Tail(str))

CodeUnits(cp) ==
  IF cp < 65536 THEN <<cp>>
  ELSE <<55296 + ((cp - 65536) \div 1024), 56320 + ((cp - 65536) % 1024)>>

\* How many continuation bytes a lead byte announces (-1: not a lead byte).
Utf8Needed(lead) ==
  IF lead < 128 THEN 0
  ELSE IF lead \in 194..223 THEN 1
  ELSE IF lead \in 224..239 THEN 2
  ELSE IF lead \in 240..244 THEN 3
  ELSE -1

\* The range allowed for the k-th continuation byte after `lead`.
Utf8Allowed(lead, k) ==
  IF k > 1 THEN 128..191
  ELSE IF lead = 224 THEN 160..191
  ELSE IF lead = 237 THEN 128..159
  ELSE IF lead = 240 THEN 144..191
  ELSE IF lead = 244 THEN 128..143
  ELSE 128..191

RECURSIVE Utf8GoodTail(_, _, _)
\* The number of well-formed continuation bytes that follow bytes[1], from
\* the k-th on, at most `need`.
Utf8GoodTail(bytes, k, need) ==
  IF k > need \/ Len(bytes) < k + 1 \/ bytes[k + 1] \notin Utf8Allowed(bytes[1], k)
  THEN k - 1
  ELSE Utf8GoodTail(bytes, k + 1, need)

Utf8CodePoint(bytes, need) ==
  IF need = 1 THEN (bytes[1] - 192) * 64 + (bytes[2] - 128)
  ELSE IF need = 2
    THEN (bytes[1] - 224) * 4096 + (bytes[2] - 128) * 64 + (bytes[3] - 128)
  ELSE (bytes[1] - 240) * 262144 + (bytes[2] - 128) * 4096
         + (bytes[3] - 128) * 64 + (bytes[4] - 128)

RECURSIVE Utf8DecodeFrom(_)
Utf8DecodeFrom(bytes) ==
  IF bytes = <<>> THEN <<>>
  ELSE LET need == Utf8Needed(bytes[1])
           good == IF need <= 0 THEN 0 ELSE Utf8GoodTail(bytes, 1, need)
       IN IF need = 0
            THEN <<bytes[1]>> \o Utf8DecodeFrom(Tail(bytes))
          ELSE IF need = -1 \/ good < need
            THEN <<65533>> \o Utf8DecodeFrom(SubSeq(bytes, good + 2, Len(bytes)))
          ELSE CodeUnits(Utf8CodePoint(bytes, need))
                 \o Utf8DecodeFrom(SubSeq(bytes, need + 2, Len(bytes)))

\* decoder.decode(buf) of new TextDecoder(): UTF-8, not fatal, and a leading
\* byte order mark is dropped.
Utf8Decode(bytes) ==
  LET units == Utf8DecodeFrom(bytes)
  IN IF units # <<>> /\ units[1] = 65279 THEN Tail(units) ELSE units

\* ------------------------------------------------------------- base64
\* A base64 text is a sequence of alphabet indices 0..63, B64Pad for "=".
B64Pad == 64
B64Error == <<-1>>

RECURSIVE btoa(_)
btoa(bin) ==
  IF bin = <<>> THEN <<>>
  ELSE IF Len(bin) = 1
    THEN <<bin[1] \div 4, (bin[1] % 4) * 16, B64Pad, B64Pad>>
  ELSE IF Len(bin) = 2
    THEN <<bin[1] \div 4, (bin[1] % 4) * 16 + (bin[2] \div 16),
           (bin[2] % 16) * 4, B64Pad>>
  ELSE <<bin[1] \div 4, (bin[1] % 4) * 16 + (bin[2] \div 16),
         (bin[2] % 16) * 4 + (bin[3] \div 64), bin[3] % 64>>
         \o btoa(SubSeq(bin, 4, Len(bin)))

RECURSIVE AtobGroups(_)
AtobGroups(t) ==
  IF t = <<>> THEN <<>>
  ELSE IF Len(t) = 2 THEN <<t[1] * 4 + (t[2] \div 16)>>
  ELSE IF Len(t) = 3
    THEN <<t[1] * 4 + (t[2] \div 16), (t[2] % 16) * 16 + (t[3] \div 4)>>
  ELSE <<t[1] * 4 + (t[2] \div 16), (t[2] % 16) * 16 + (t[3] \div 4),
         (t[3] % 4) * 64 + t[4]>>
         \o AtobGroups(SubSeq(t, 5, Len(t)))

\* atob(text): the forgiving base64 decode; up to two "=" are dropped from a
\* text whose length is a multiple of 4, spare trailing bits are discarded.
atob(text) ==
  LET t == IF Len(text) % 4 = 0 /\ Len(text) > 0 /\ text[Len(text)] = B64Pad
           THEN IF text[Len(text) - 1] = B64Pad
                THEN SubSeq(text, 1, Len(text) - 2)
                ELSE SubSeq(text, 1, Len(text) - 1)
           ELSE text
  IN IF Len(t) % 4 = 1 \/ \E i \in 1..Len(t) : t[i] \notin 0..63
     THEN B64Error
     ELSE AtobGroups(t)

\* An encoder that keeps seven bits of every byte.
Base64SevenBit(buf) == btoa([i \in 1..Len(buf) |-> buf[i] % 128])

\* String.fromCharCode(...bytes) and charCodeAt map a byte to the character
\* of that code and back.  The buffers of the program are short enough to be
\* passed as the arguments of one call.
arrayBufferToBase64(buf) == btoa(buf)
base64ToArrayBuffer(b64) == atob(b64)

\* ------------------------------------------------------------- AES-GCM
IvLength == 12
TagLength == 128
TagBytes == TagLength \div 8

RECURSIVE PolyHash(_)
PolyHash(bytes) ==
  IF bytes = <<>> THEN 0
  ELSE (PolyHash(SubSeq(bytes, 1, Len(bytes) - 1)) * 31 + bytes[Len(bytes)] + 1) % 65521

Bytes2(n) == <<n \div 256, n % 256>>

Part006Info == "ECDH AES-GCM key"

\* compareArrays and the salt of deriveSharedKeyIfReady in the relay chat.
compareArrays(a, b) == CompareFrom(a, b, 1)
Part006Salt(myPubRaw, peerPubRaw) ==
  IF compareArrays(myPubRaw, peerPubRaw) <= 0
  THEN Sha256(concatUint8(myPubRaw, peerPubRaw))
  ELSE Sha256(concatUint8(peerPubRaw, myPubRaw))

\* deriveSharedKeyIfReady of the relay chat run without interruption, for a
\* peer key that imports.
Part006Derive(myPrivate, myPubRaw, peerPubRaw) ==
  Hkdf(deriveBits(myPrivate, importRaw(peerPubRaw)),
       Part006Salt(myPubRaw, peerPubRaw), Part006Info)
InfoNum(info) == IF info = CryptoJsInfo THEN 1 ELSE IF info = Part006Info THEN 2 ELSE 0

Keystream(key, iv, i) ==
  (key.ikm + PolyHash(key.salt[2]) + InfoNum(key.info) + PolyHash(iv) + i) % 256

\* The authentication tag: a fingerprint of key, iv, associated data and
\* ciphertext, TagBytes long.
GcmTag(key, iv, aad, ct) ==
  LET body == <<key.ikm % 256>> \o Bytes2(PolyHash(key.salt[2])) \o <<InfoNum(key.info)>>
                \o Bytes2(PolyHash(iv)) \o Bytes2(PolyHash(aad)) \o Bytes2(PolyHash(ct))
                \o <<Len(iv) % 256, Len(aad) % 256, Len(ct) % 256>>
  IN body \o [i \in 1..(TagBytes - Len(body)) |-> 0]

\* crypto.subtle.encrypt({name:"AES-GCM", iv, additionalData, tagLength}, key, data):
\* the ciphertext followed by the tag.
AesGcmEncrypt(key, iv, aad, data) ==
  LET ct == [i \in 1..Len(data) |-> (data[i] + Keystream(key, iv, i)) % 256]
  IN ct \o GcmTag(key, iv, aad, ct)

OperationError == [ok |-> FALSE, data |-> <<>>]

\* crypto.subtle.decrypt: all or nothing, the plaintext only when the tag
\* verifies.
AesGcmDecrypt(key, iv, aad, buf) ==
  IF Len(buf) < TagBytes THEN OperationError
  ELSE LET n == Len(buf) - TagBytes
           ct == SubSeq(buf, 1, n)
       IN IF SubSeq(buf, n + 1, Len(buf)) # GcmTag(key, iv, aad, ct)
          THEN OperationError
          ELSE [ok |-> TRUE,
                data |-> [i \in 1..n |-> (ct[i] + 256 - Keystream(key, iv, i)) % 256]]

\* crypto.getRandomValues(new Uint8Array(12)), the draw made explicit.
getRandomValues(draw) == [i \in 1..IvLength |-> draw]

\* The additionalData handed to WebCrypto: none (the same as empty) when
\* aad is null or the empty string.  aad is Absent for null, Some(string)
\* otherwise.
AdditionalData(aad) ==
  IF aad = Absent \/ aad[1] = <<>> THEN <<>> ELSE Utf8Encode(aad[1])

\* An encrypt that uses an all-zero IV instead of the drawn one.
EncryptFixedIv(aesKey, plaintext, aad, iv) ==
  LET zero == [i \in 1..IvLength |-> 0]
  IN [iv |-> arrayBufferToBase64(zero),
      ct |-> arrayBufferToBase64(
               AesGcmEncrypt(aesKey, zero, AdditionalData(aad), Utf8Encode(plaintext)))]

\* encryptAesGcmBase64(aesKey, plaintext, aad); iv is what getRandomValues
\* returned.
encryptAesGcmBase64(aesKey, plaintext, aad, iv) ==
  [iv |-> arrayBufferToBase64(iv),
   ct |-> arrayBufferToBase64(
            AesGcmEncrypt(aesKey, iv, AdditionalData(aad), Utf8Encode(plaintext)))]

Thrown == [ok |-> FALSE, text |-> <<>>]

\* A decrypt that forgets to pass the associated data on.
DecryptIgnoringAad(aesKey, ivB64, ctB64, aad) ==
  LET iv == base64ToArrayBuffer(ivB64)
      ct == base64ToArrayBuffer(ctB64)
      plain == AesGcmDecrypt(aesKey, iv, <<>>, ct)
  IN IF iv = B64Error \/ ct = B64Error \/ ~plain.ok THEN Thrown
     ELSE [ok |-> TRUE, text |-> Utf8Decode(plain.data)]

\* decryptAesGcmBase64(aesKey, ivB64, ctB64, aad): the decoded text, or the
\* error rethrown.
decryptAesGcmBase64(aesKey, ivB64, ctB64, aad) ==
  LET iv == base64ToArrayBuffer(ivB64)
      ct == base64ToArrayBuffer(ctB64)
      plain == AesGcmDecrypt(aesKey, iv, AdditionalData(aad), ct)
  IN IF iv = B64Error \/ ct = B64Error \/ ~plain.ok THEN Thrown
     ELSE [ok |-> TRUE, text |-> Utf8Decode(plain.data)]

\* ------------------------------------------------------------- state
VARIABLES
  dh,    \* key-agreement harness: two keypairs and the keys derived from them,
         \* or two raw byte strings and the salts computed from them
  ae,    \* AEAD harness: one encrypt call and a decrypt call made on its output
  nonce, \* nonce harness: the encrypt calls made under one session key
  relay,   \* the relay process: which implementation runs, whether it is up
  clients, \* each connection's place in wss.clients and its readyState
  ev,      \* the event the relay handled last
  outbox,  \* per connection, what the last run of the message handler sent
           \* to it, on its way to the client
  peer,    \* per chat page: its socket, buttons, key material, chat and log
  inbox,   \* per chat page: envelopes the relay sent it, not yet handled
  tasks,   \* per chat page: async functions suspended at an await
  clicks,  \* buttons clicked so far
  chain,   \* the identity contract: the fingerprint stored per address, and
           \* the last call made through keyregistry.js
  demo,    \* the two-panel demo of web3.js: per panel its keys, receive
           \* buffer, bubbles and last alert
  wire,    \* the relay with its sockets seen as streams: per connection what
           \* the client sent and the relay has not read yet, and what the
           \* client has received, in order
  manual   \* the page of client/script.js with both sides in it: socket,
           \* key material, pending ciphertexts, chats, input boxes, log

cryptoVars == <<dh, ae, nonce>>
relayVars == <<relay, clients, ev, outbox>>
peerVars == <<peer, inbox, tasks, clicks>>
sideVars == <<chain, demo, wire, manual>>
otherThanChain == <<demo, wire, manual>>
otherThanDemo == <<chain, wire, manual>>
otherThanWire == <<chain, demo, manual>>
otherThanManual == <<chain, demo, wire>>
vars == <<dh, ae, nonce, relay, clients, ev, outbox, peer, inbox, tasks, clicks,
          chain, demo, wire, manual>>

\* The harnesses at rest.
DhIdle == [mode |-> "idle"]
AeIdle == [mode |-> "idle"]
NonceIdle == [mode |-> "idle"]
CryptoIdle == dh = DhIdle /\ ae = AeIdle /\ nonce = NonceIdle
RelayIdle ==
  /\ relay = [impl |-> "none", up |-> FALSE, seenBad |-> FALSE]
  /\ clients = <<>> /\ ev = [op |-> "none"] /\ outbox = <<>>
PeersIdle == peer = <<>> /\ inbox = <<>> /\ tasks = <<>> /\ clicks = 0
ChainIdle == <<>>
DemoIdle == <<>>
WireIdle == <<>>
ManualIdle == <<>>
SideIdle ==
  chain = ChainIdle /\ demo = DemoIdle /\ wire = WireIdle /\ manual = ManualIdle

\* ------------------------------------------- key agreement and salt
InitDerive ==
  /\ ae = AeIdle /\ nonce = NonceIdle /\ RelayIdle /\ PeersIdle /\ SideIdle
  /\ \/ \E a \in Privs, b \in Privs, client \in {"crypto.js", "relay chat"} :
          dh = [mode |-> "agree", client |-> client,
                a |-> genECDH(a), b |-> genECDH(b),
                keyA |-> Absent, keyB |-> Absent]
     \/ \E x \in ByteStrings, y \in ByteStrings :
          dh = [mode |-> "salt", x |-> x, y |-> y, xy |-> Absent, yx |-> Absent]

\* The session key a client derives from its own keypair and the raw
\* public key it got from its peer.
SessionKey(client, mine, peerPubRaw) ==
  IF client = "crypto.js"
  THEN deriveAesKeyFromECDH(mine.privateKey, importRaw(peerPubRaw),
                            exportRaw(mine.publicKey), peerPubRaw)
  ELSE Part006Derive(mine.privateKey, exportRaw(mine.publicKey), peerPubRaw)

\* Peer A derives from its private key and B's exported public key.
DeriveA ==
  /\ dh.mode = "agree" /\ dh.keyA = Absent
  /\ dh' = [dh EXCEPT !.keyA =
       Some(SessionKey(dh.client, dh.a, exportRaw(dh.b.publicKey)))]
  /\ UNCHANGED <<ae, nonce, relayVars, peerVars, sideVars>>

DeriveB ==
  /\ dh.mode = "agree" /\ dh.keyB = Absent
  /\ dh' = [dh EXCEPT !.keyB =
       Some(SessionKey(dh.client, dh.b, exportRaw(dh.a.publicKey)))]
  /\ UNCHANGED <<ae, nonce, relayVars, peerVars, sideVars>>

SaltXY ==
  /\ dh.mode = "salt" /\ dh.xy = Absent
  /\ dh' = [dh EXCEPT !.xy = Some(AgreementSalt(dh.x, dh.y))]
  /\ UNCHANGED <<ae, nonce, relayVars, peerVars, sideVars>>

SaltYX ==
  /\ dh.mode = "salt" /\ dh.yx = Absent
  /\ dh' = [dh EXCEPT !.yx = Some(AgreementSalt(dh.y, dh.x))]
  /\ UNCHANGED <<ae, nonce, relayVars, peerVars, sideVars>>

NextDerive ==
  \/ DeriveA
  \/ DeriveB
  \/ SaltXY
  \/ SaltYX

SpecDerive == InitDerive /\ [][NextDerive]_vars

\* ------------------------------------------------- base64 there and back
\* A buffer is encoded with arrayBufferToBase64 and the text decoded with
\* base64ToArrayBuffer, as the clients do with public keys, IVs and
\* ciphertexts.  Bytes with no bit, some bits, the top bit and every bit
\* set; lengths on both sides of a group of three.
B64Bytes == {0, 77, 128, 255}
Buffers == SeqsUpTo(B64Bytes, MaxLen + 2)

InitBase64 ==
  /\ ae = AeIdle /\ nonce = NonceIdle /\ RelayIdle /\ PeersIdle /\ SideIdle
  /\ \E b \in Buffers :
       dh = [mode |-> "base64", b |-> b, text |-> Absent, back |-> Absent]

Encode64 ==
  /\ dh.mode = "base64" /\ dh.text = Absent
  /\ dh' = [dh EXCEPT !.text = Some(arrayBufferToBase64(dh.b))]
  /\ UNCHANGED <<ae, nonce, relayVars, peerVars, sideVars>>

Decode64 ==
  /\ dh.mode = "base64" /\ dh.text # Absent /\ dh.back = Absent
  /\ dh' = [dh EXCEPT !.back = Some(base64ToArrayBuffer(dh.text[1]))]
  /\ UNCHANGED <<ae, nonce, relayVars, peerVars, sideVars>>

NextBase64 ==
  \/ Encode64
  \/ Decode64

SpecBase64 == InitBase64 /\ [][NextBase64]_vars

\* ------------------------------------------------ AEAD round trip harness
\* Session keys as two peers derive them.
KeyOf(a, b) ==
  deriveAesKeyFromECDH(a, ModExp(CurveG, b),
                       exportRaw(ModExp(CurveG, a)), exportRaw(ModExp(CurveG, b)))
HarnessKeys == {KeyOf(1, 2), KeyOf(1, 3)}

\* Code units: "h", U+FEFF, a high and a low surrogate.
TextUnits == {104, 65279, 55296, 56320}
Plaintexts == SeqsUpTo(TextUnits, MaxStrLen)
Aads == {Absent, Some(<<>>), Some(<<97>>), Some(<<98>>)}
Draws == 0..MaxRand

FlipBit(bytes, pos, bit) ==
  [bytes EXCEPT ![pos] = IF (bytes[pos] \div (2 ^ bit)) % 2 = 0
                         THEN bytes[pos] + (2 ^ bit) ELSE bytes[pos] - (2 ^ bit)]

InitAead ==
  /\ dh = DhIdle /\ nonce = NonceIdle /\ RelayIdle /\ PeersIdle /\ SideIdle
  /\ \E k \in HarnessKeys, m \in Plaintexts, a \in Aads :
       ae = [mode |-> "aead", key |-> k, m |-> m, aad |-> a,
             out |-> Absent, dec |-> Absent]

AeEncrypt ==
  /\ ae.mode = "aead" /\ ae.out = Absent
  /\ \E draw \in Draws :
       ae' = [ae EXCEPT !.out =
                Some(encryptAesGcmBase64(ae.key, ae.m, ae.aad, getRandomValues(draw)))]
  /\ UNCHANGED <<dh, nonce, relayVars, peerVars, sideVars>>

\* A decrypt call and what it returned.
DecCall(key, ivB64, ctB64, aad) ==
  [key |-> key, iv |-> ivB64, ct |-> ctB64, aad |-> aad,
   res |-> decryptAesGcmBase64(key, ivB64, ctB64, aad)]

AeReady == ae.mode = "aead" /\ ae.out # Absent /\ ae.dec = Absent

AeDecryptIntact ==
  /\ AeReady
  /\ ae' = [ae EXCEPT !.dec =
              Some(DecCall(ae.key, ae.out[1].iv, ae.out[1].ct, ae.aad))]
  /\ UNCHANGED <<dh, nonce, relayVars, peerVars, sideVars>>

\* One bit of the ciphertext or of its tag is flipped on the way.
AeDecryptFlippedCt ==
  /\ AeReady
  /\ LET buf == base64ToArrayBuffer(ae.out[1].ct)
     IN \E pos \in 1..Len(buf), bit \in 0..7 :
          ae' = [ae EXCEPT !.dec =
                   Some(DecCall(ae.key, ae.out[1].iv,
                                arrayBufferToBase64(FlipBit(buf, pos, bit)), ae.aad))]
  /\ UNCHANGED <<dh, nonce, relayVars, peerVars, sideVars>>

\* The iv is another draw, or has one bit flipped.
AeDecryptOtherIv ==
  /\ AeReady
  /\ LET iv == base64ToArrayBuffer(ae.out[1].iv)
     IN \E other \in {getRandomValues(d) : d \in Draws}
                       \cup {FlipBit(iv, pos, bit) : pos \in 1..Len(iv), bit \in {0, 7}} :
          /\ other # iv
          /\ ae' = [ae EXCEPT !.dec =
                      Some(DecCall(ae.key, arrayBufferToBase64(other), ae.out[1].ct, ae.aad))]
  /\ UNCHANGED <<dh, nonce, relayVars, peerVars, sideVars>>

AeDecryptOtherKey ==
  /\ AeReady
  /\ \E k \in HarnessKeys \ {ae.key} :
       ae' = [ae EXCEPT !.dec = Some(DecCall(k, ae.out[1].iv, ae.out[1].ct, ae.aad))]
  /\ UNCHANGED <<dh, nonce, relayVars, peerVars, sideVars>>

AeDecryptOtherAad ==
  /\ AeReady
  /\ \E a \in Aads \ {ae.aad} :
       ae' = [ae EXCEPT !.dec = Some(DecCall(ae.key, ae.out[1].iv, ae.out[1].ct, a))]
  /\ UNCHANGED <<dh, nonce, relayVars, peerVars, sideVars>>

NextAead ==
  \/ AeEncrypt
  \/ AeDecryptIntact
  \/ AeDecryptFlippedCt
  \/ AeDecryptOtherIv
  \/ AeDecryptOtherKey
  \/ AeDecryptOtherAad

SpecAead == InitAead /\ [][NextAead]_vars

\* ------------------------------------------------------- nonce harness
InitNonce ==
  /\ dh = DhIdle /\ ae = AeIdle /\ RelayIdle /\ PeersIdle /\ SideIdle
  /\ \E k \in HarnessKeys :
       nonce = [mode |-> "nonce", key |-> k, calls |-> <<>>]

\* One more encrypt call under the key; rnd is what the random source
\* returned to it.
NonceEncrypt ==
  /\ nonce.mode = "nonce" /\ Len(nonce.calls) < MaxCalls
  /\ \E draw \in Draws, m \in {<<>>, <<104>>}, a \in {Absent, Some(<<97>>)} :
       nonce' = [nonce EXCEPT !.calls = Append(@,
                   [rnd |-> getRandomValues(draw), m |-> m,
                    out |-> encryptAesGcmBase64(nonce.key, m, a, getRandomValues(draw))])]
  /\ UNCHANGED <<dh, ae, relayVars, peerVars, sideVars>>

NextNonce == NonceEncrypt

SpecNonce == InitNonce /\ [][NextNonce]_vars


\* ================================================================== relay
\* server/server.js, relay-server.js (with timestamps) and relay-server.js
\* (minimal): three implementations of the same fan-out relay.
RelayImpls == {"server.js", "relay-timestamp", "relay-minimal"}

Conns == 1..MaxConns

\* A field that is not there reads as undefined.
Undefined == "undefined"
Truthy(v) == v \notin {Undefined, ""}

\* What a client may send: text that is no JSON, or the JSON value it
\* parses to.  An object is kept as its type, timestamp, from and target
\* fields and its payload (pub, or iv and ct), each Undefined when absent.
NoFields == [type |-> Undefined, timestamp |-> Undefined, from |-> Undefined,
             target |-> Undefined, payload |-> Undefined]
Object(type, timestamp, from, target, payload) ==
  [json |-> "object", type |-> type, timestamp |-> timestamp, from |-> from,
   target |-> target, payload |-> payload]
RawMessages ==
  {[json |-> j] @@ NoFields : j \in {"invalid", "null", "primitive", "array"}}
  \cup {Object(Undefined, Undefined, Undefined, Undefined, Undefined),
        Object("pubkey", Undefined, "left", Undefined, "pub"),
        Object("cipher", Undefined, "left", "right", "iv,ct"),
        Object("cipher", "t0", "left", "third", "iv,ct")}

\* The peer whose page uses connection c.
PeerOn(c) == IF c = 1 THEN "left" ELSE IF c = 2 THEN "right" ELSE "third"

\* new Date().toISOString()
Now == "now"

\* wss.clients holds a connection from its 'connection' event to its 'close'
\* event; the set iterates in insertion order, which is the order of the ids.
Registered(c) == clients[c] \in {"OPEN", "CLOSING"}

NoDeliveries == [c \in Conns |-> <<>>]

\* A broadcast that routes: an envelope with a target goes only to the
\* connection of the peer it names.
BroadcastToTarget(ws, data, failing) ==
  [c \in Conns |->
     IF /\ c # ws /\ clients[c] = "OPEN" /\ c \notin failing
        /\ data.target \in {Undefined, PeerOn(c)}
     THEN <<data>> ELSE <<>>]

\* The forEach over wss.clients with every send inside its own try/catch
\* (server.js lines 29-37): a send that throws is skipped.
BroadcastGuarded(ws, data, failing) ==
  [c \in Conns |->
     IF c # ws /\ clients[c] = "OPEN" /\ c \notin failing THEN <<data>> ELSE <<>>]

\* A forEach that does not look at readyState: it also sends to sockets
\* that are closing or closed.
BroadcastAnyState(ws, data, failing) ==
  [c \in Conns |->
     IF /\ c # ws /\ clients[c] # "NONE"
        /\ \A d \in 1..c : (d # ws /\ clients[d] = "OPEN") => d \notin failing
     THEN <<data>> ELSE <<>>]

\* The forEach with no try/catch around the send (relay-server.js): the first
\* send that throws ends the loop.
BroadcastUnguarded(ws, data, failing) ==
  [c \in Conns |->
     IF /\ c # ws /\ clients[c] = "OPEN"
        /\ \A d \in 1..c : (d # ws /\ clients[d] = "OPEN") => d \notin failing
     THEN <<data>> ELSE <<>>]

\* The outcome of one run of a message handler: what was sent to whom, and
\* whether an exception left the handler.
Handled(sent) == [sent |-> sent, raised |-> FALSE]
Raised == [sent |-> NoDeliveries, raised |-> TRUE]

\* server/server.js, ws.on('message').
ServerOnMessage(ws, raw, failing) ==
  IF raw.json = "invalid" THEN Handled(NoDeliveries)
  ELSE IF raw.json = "null" THEN Raised
  ELSE IF ~Truthy(raw.type) THEN Handled(NoDeliveries)
  ELSE Handled(BroadcastGuarded(ws, raw, failing))

\* JSON.stringify leaves out a property set on an array.
WithTimestamp(data) ==
  IF data.json = "object" /\ ~Truthy(data.timestamp)
  THEN [data EXCEPT !.timestamp = Now] ELSE data

\* relay-server.js with timestamps, ws.on('message').
TimestampOnMessage(ws, raw, failing) ==
  IF raw.json \in {"invalid", "null", "primitive"} THEN Handled(NoDeliveries)
  ELSE Handled(BroadcastUnguarded(ws, WithTimestamp(raw), failing))

\* relay-server.js, minimal, ws.on('message').
MinimalOnMessage(ws, raw, failing) ==
  IF raw.json = "invalid" THEN Handled(NoDeliveries)
  ELSE Handled(BroadcastUnguarded(ws, raw, failing))

OnMessage(ws, raw, failing) ==
  IF relay.impl = "server.js" THEN ServerOnMessage(ws, raw, failing)
  ELSE IF relay.impl = "relay-timestamp" THEN TimestampOnMessage(ws, raw, failing)
  ELSE MinimalOnMessage(ws, raw, failing)

Event(op, c, raw, failing, raised) ==
  [op |-> op, conn |-> c, raw |-> raw, failing |-> failing, raised |-> raised,
   before |-> clients]
NoRaw == [json |-> "none"] @@ NoFields

InitRelay ==
  /\ CryptoIdle /\ PeersIdle /\ SideIdle
  /\ \E impl \in RelayImpls : relay = [impl |-> impl, up |-> TRUE, seenBad |-> FALSE]
  /\ clients = [c \in Conns |-> "NONE"]
  /\ ev = [op |-> "listen", conn |-> 0, raw |-> NoRaw, failing |-> {},
           raised |-> FALSE, before |-> [c \in Conns |-> "NONE"]]
  /\ outbox = NoDeliveries

\* What a relay that kept the envelope it broadcast last would send to a new
\* connection.
ReplayLast(c) ==
  IF \E d \in Conns : outbox[d] # <<>>
  THEN outbox[CHOOSE d \in Conns : outbox[d] # <<>>] ELSE <<>>

\* What the relay sends to connection c when it registers: nothing, the
\* handler logs and installs the socket's listeners.
Greeting(c) == <<>>

\* wss.on('connection'): a new socket, already added to wss.clients.
OnConnection(c) ==
  /\ relay.up /\ clients[c] = "NONE"
  /\ \A d \in 1..(c - 1) : clients[d] # "NONE"
  /\ clients' = [clients EXCEPT ![c] = "OPEN"]
  /\ ev' = Event("connection", c, NoRaw, {}, FALSE)
  /\ outbox' = [outbox EXCEPT ![c] = Greeting(c)]
  /\ UNCHANGED relay
  /\ UNCHANGED <<cryptoVars, peerVars, sideVars>>

\* The closing handshake has begun: the socket is no longer OPEN but is
\* still in wss.clients.
BeginClose(c) ==
  /\ relay.up /\ clients[c] = "OPEN"
  /\ clients' = [clients EXCEPT ![c] = "CLOSING"]
  /\ ev' = Event("closing", c, NoRaw, {}, FALSE)
  /\ UNCHANGED <<relay, outbox>>
  /\ UNCHANGED <<cryptoVars, peerVars, sideVars>>

\* ws.on('close'): the socket is out of wss.clients; the handler logs.  What
\* was on its way to the closed socket is lost with it.
Close(c) ==
  /\ relay.up /\ Registered(c)
  /\ clients' = [clients EXCEPT ![c] = "CLOSED"]
  /\ ev' = Event("close", c, NoRaw, {}, FALSE)
  /\ outbox' = [outbox EXCEPT ![c] = <<>>]
  /\ UNCHANGED relay
  /\ UNCHANGED <<cryptoVars, peerVars, sideVars>>

\* ws.on('error'): the handler logs.
SocketError(c) ==
  /\ relay.up /\ Registered(c)
  /\ ev' = Event("error", c, NoRaw, {}, FALSE)
  /\ UNCHANGED <<relay, clients, outbox>>
  /\ UNCHANGED <<cryptoVars, peerVars, sideVars>>

\* The sockets whose send may throw during one broadcast from ws: none, or
\* one of the sockets the broadcast sends to.
Failures(ws) ==
  {{}} \cup {{f} : f \in {c \in Conns : c # ws /\ clients[c] = "OPEN"}}

\* ws.on('message') for data from connection ws; client.send throws for the
\* connections in failing.  An exception that leaves the handler is an
\* uncaught exception: the process exits and every connection is dropped.
Message(ws, raw, failing) ==
  /\ relay.up /\ clients[ws] = "OPEN" /\ failing \in Failures(ws)
  /\ LET run == OnMessage(ws, raw, failing)
     IN /\ outbox' = run.sent
        /\ ev' = Event("message", ws, raw, failing, run.raised)
        /\ relay' = [relay EXCEPT !.up = ~run.raised,
                                  !.seenBad = @ \/ raw.json = "invalid"]
        /\ clients' = IF run.raised
                      THEN [c \in Conns |-> IF Registered(c) THEN "CLOSED" ELSE clients[c]]
                      ELSE clients
  /\ UNCHANGED <<cryptoVars, peerVars, sideVars>>

NextRelay ==
  \/ \E c \in Conns : OnConnection(c)
  \/ \E c \in Conns : BeginClose(c)
  \/ \E c \in Conns : Close(c)
  \/ \E c \in Conns : SocketError(c)
  \/ \E ws \in Conns, raw \in RawMessages, failing \in SUBSET Conns :
       Message(ws, raw, failing)

SpecRelay == InitRelay /\ [][NextRelay]_vars


\* ------------------------------------------------- relay: order of delivery
\* The same relay with each socket seen as the ordered stream it is: a frame
\* a client sends waits in wire.sent until the relay's 'message' event for it
\* fires, and what the relay sends to a client is added to wire.got, which
\* takes the place of ev and outbox here.

\* The k-th frame of the run, sent by the page on connection c: a cipher
\* envelope whose payload tells c and k, or text that is no JSON.
Frame(c, k, json) ==
  IF json = "object" THEN Object("cipher", Undefined, PeerOn(c), Undefined, <<c, k>>)
  ELSE [json |-> json] @@ NoFields

\* A relay that puts new data in front of what a socket was already sent.
clientSendInFront(stream, data) == data \o stream

\* client.send(JSON.stringify(data)): data follows what the socket was sent.
clientSend(stream, data) == stream \o data

InitOrder ==
  /\ CryptoIdle /\ PeersIdle
  /\ chain = ChainIdle /\ demo = DemoIdle /\ manual = ManualIdle
  /\ \E impl \in RelayImpls : relay = [impl |-> impl, up |-> TRUE, seenBad |-> FALSE]
  /\ clients = [c \in Conns |-> "OPEN"]
  /\ ev = [op |-> "listen", conn |-> 0, raw |-> NoRaw, failing |-> {},
           raised |-> FALSE, before |-> [c \in Conns |-> "NONE"]]
  /\ outbox = NoDeliveries
  /\ wire = [sent |-> [c \in Conns |-> <<>>], got |-> [c \in Conns |-> <<>>],
             sends |-> 0]

\* ws.send(frame) in the page on connection c.
WireSend(c, json) ==
  /\ relay.up /\ clients[c] = "OPEN" /\ wire.sends < MaxSends
  /\ wire' = [wire EXCEPT !.sent[c] = Append(@, Frame(c, wire.sends + 1, json)),
                          !.sends = @ + 1]
  /\ UNCHANGED <<relay, clients, ev, outbox>>
  /\ UNCHANGED <<cryptoVars, peerVars, otherThanWire>>

\* ws.on('message') for the oldest frame of connection ws not yet read; the
\* handler runs to its end before the next event.
WireMessage(ws, failing) ==
  /\ relay.up /\ clients[ws] = "OPEN" /\ failing \in Failures(ws)
  /\ wire.sent[ws] # <<>>
  /\ LET raw == Head(wire.sent[ws])
         run == OnMessage(ws, raw, failing)
     IN /\ relay' = [relay EXCEPT !.up = ~run.raised,
                                  !.seenBad = @ \/ raw.json = "invalid"]
        /\ wire' = [wire EXCEPT
              !.sent[ws] = Tail(@),
              !.got = [c \in Conns |-> clientSend(wire.got[c], run.sent[c])]]
  /\ UNCHANGED <<clients, ev, outbox>>
  /\ UNCHANGED <<cryptoVars, peerVars, otherThanWire>>

\* ws.on('close'): frames of the socket not yet read are lost with it.
WireClose(c) ==
  /\ relay.up /\ clients[c] = "OPEN"
  /\ clients' = [clients EXCEPT ![c] = "CLOSED"]
  /\ wire' = [wire EXCEPT !.sent[c] = <<>>]
  /\ UNCHANGED <<relay, ev, outbox>>
  /\ UNCHANGED <<cryptoVars, peerVars, otherThanWire>>

NextOrder ==
  \/ \E c \in Conns, json \in {"object", "invalid"} : WireSend(c, json)
  \/ \E ws \in Conns, failing \in SUBSET Conns : WireMessage(ws, failing)
  \/ \E c \in Conns : WireClose(c)

SpecOrder == InitOrder /\ [][NextOrder]_vars


\* ============================================================== chat page
\* script.js of the relay chat: two pages, "left" and "right", connected to
\* one relay that fans each envelope out to the other page.
Peers == {"left", "right"}
Other(p) == IF p = "left" THEN "right" ELSE "left"

\* "hello" and " " as UTF-16 code units: what the user may have typed.
Hello == <<104, 101, 108, 108, 111>>
Typed == {Hello, <<32>>}

\* The private scalars generateKey may return here.
Scalars == {1, 3}

\* String.prototype.trim, for the white space that can be typed here.
RECURSIVE TrimStart(_)
TrimStart(str) ==
  IF str # <<>> /\ Head(str) = 32 THEN TrimStart(Tail(str)) ELSE str
RECURSIVE TrimEnd(_)
TrimEnd(str) ==
  IF str # <<>> /\ str[Len(str)] = 32
  THEN TrimEnd(SubSeq(str, 1, Len(str) - 1)) ELSE str
Trim(str) == TrimEnd(TrimStart(str))

\* 'chat-aad'
ChatAad == <<99, 104, 97, 116, 45, 97, 97, 100>>

\* An encryption that attaches the tag and leaves the text as it is.
SealWithoutCipher(aesKey, text, iv) ==
  [iv |-> arrayBufferToBase64(iv),
   ct |-> arrayBufferToBase64(
            Utf8Encode(text) \o GcmTag(aesKey, iv, Utf8Encode(ChatAad), Utf8Encode(text)))]

\* The encryption inside sendBtn.onclick; iv is what getRandomValues returned.
Part006Encrypt(aesKey, text, iv) ==
  [iv |-> arrayBufferToBase64(iv),
   ct |-> arrayBufferToBase64(
            AesGcmEncrypt(aesKey, iv, Utf8Encode(ChatAad), Utf8Encode(text)))]

\* decryptMessage(ivB64, ctB64) under the page's aesKey.
decryptMessage(aesKey, ivB64, ctB64) ==
  LET iv == base64ToArrayBuffer(ivB64)
      ct == base64ToArrayBuffer(ctB64)
      plain == AesGcmDecrypt(aesKey, iv, Utf8Encode(ChatAad), ct)
  IN IF iv = B64Error \/ ct = B64Error \/ ~plain.ok THEN Thrown
     ELSE [ok |-> TRUE, text |-> Utf8Decode(plain.data)]

\* The envelopes the page sends: none of them has a target property.
Envelope(type, name, pub, iv, ct) ==
  [type |-> type, name |-> name, pub |-> pub, iv |-> iv, ct |-> ct,
   target |-> Undefined]
PubkeyMsg(p, pub) == Envelope("pubkey", p, pub, <<>>, <<>>)
CipherMsg(p, enc) == Envelope("cipher", p, <<>>, enc.iv, enc.ct)
HelloMsg(p) == Envelope("hello", p, <<>>, <<>>, <<>>)

\* An async function suspended at an await, with the values it holds.
Task(phase, raw, bits, key) ==
  [phase |-> phase, raw |-> raw, bits |-> bits, key |-> key]

RemoveAt(seq, i) == SubSeq(seq, 1, i - 1) \o SubSeq(seq, i + 1, Len(seq))

Logged(s, line) == [s EXCEPT !.log = Append(@, line)]

\* ws.send(env): the relay passes it to the other page if that is connected;
\* on a socket that is not open nothing goes out.
Sent(p, env) ==
  [q \in Peers |->
     IF q = Other(p) /\ peer[p].ws = "open" /\ peer[q].ws = "open"
     THEN Append(inbox[q], env) ELSE inbox[q]]

\* alert(text): the page keeps the text of the last alert it showed.
NoAlert == ""
Alerted(s, text) == [s EXCEPT !.alert = text]

\* The page as loaded: no socket, no key material, every button but Connect
\* disabled.
InitPage ==
  [ws |-> "none",
   genKey |-> FALSE, sendPub |-> FALSE, send |-> FALSE,
   myKeys |-> Absent, myPubRaw |-> Absent, peerPubRaw |-> Absent,
   aesKey |-> Absent, messages |-> <<>>, log |-> <<>>, alert |-> NoAlert]

Init ==
  /\ CryptoIdle /\ RelayIdle /\ SideIdle
  /\ peer = [p \in Peers |-> InitPage]
  /\ inbox = [p \in Peers |-> <<>>]
  /\ tasks = [p \in Peers |-> <<>>]
  /\ clicks = 0

Click == clicks < MaxClicks /\ clicks' = clicks + 1

\* connectBtn.onclick (both listeners) when the socket is open, and the
\* onclose that follows ws.close().
Disconnect(p) ==
  /\ Click /\ peer[p].ws = "open"
  /\ peer' = [peer EXCEPT ![p] =
       [@ EXCEPT !.ws = "closed", !.genKey = FALSE, !.sendPub = FALSE,
                 !.send = FALSE,
                 !.log = @ \o <<"Disconnected from relay.", "Relay connection closed.">>]]
  /\ inbox' = [inbox EXCEPT ![p] = <<>>]
  /\ UNCHANGED tasks
  /\ UNCHANGED <<cryptoVars, relayVars, sideVars>>

\* connectBtn.onclick (both listeners) when there is no open socket: a new
\* WebSocket, and the timer for broadcastHello() set.
Connect(p) ==
  /\ Click /\ peer[p].ws \in {"none", "closed"}
  /\ peer' = [peer EXCEPT ![p].ws = "connecting"]
  /\ UNCHANGED <<inbox, tasks>>
  /\ UNCHANGED <<cryptoVars, relayVars, sideVars>>

\* broadcastHello() at the timer set on connect: nothing if the socket is
\* not open yet.
broadcastHello(p, open) ==
  [q \in Peers |->
     IF open /\ q = Other(p) /\ peer[q].ws = "open"
     THEN Append(inbox[q], HelloMsg(p)) ELSE inbox[q]]

\* ws.onopen, and the timer set on connect.  The timer either ran out while
\* the socket was still connecting (early) or is taken to run out as soon
\* as the socket is open.
OnOpen(p, early) ==
  /\ peer[p].ws = "connecting"
  /\ peer' = [peer EXCEPT ![p] =
       Logged([@ EXCEPT !.ws = "open", !.genKey = TRUE, !.sendPub = FALSE],
              "Connected to relay server")]
  /\ inbox' = broadcastHello(p, ~early)
  /\ UNCHANGED <<tasks, clicks>>
  /\ UNCHANGED <<cryptoVars, relayVars, sideVars>>

\* genKeyBtn.onclick up to its second await: myKeys is assigned, the export
\* of the public key is under way.
GenKey(p, scalar) ==
  /\ Click /\ peer[p].genKey
  /\ LET keys == genECDH(scalar)
     IN /\ peer' = [peer EXCEPT ![p].myKeys = Some(keys)]
        /\ tasks' = [tasks EXCEPT ![p] =
             Append(@, Task("export", exportRaw(keys.publicKey), 0, Absent))]
  /\ UNCHANGED inbox
  /\ UNCHANGED <<cryptoVars, relayVars, sideVars>>

\* sendPubBtn.onclick on page p: the page state it leaves and what it hands
\* to ws.send.
sendPubBtnOnclick(p) ==
  LET s == peer[p]
  IN IF s.ws # "open"
     THEN [page |-> Alerted(s, "Connect to relay first."), out |-> Absent]
     ELSE IF s.myPubRaw = Absent
     THEN [page |-> Alerted(s, "Generate keypair first."), out |-> Absent]
     ELSE [page |-> [Logged(s, "Sent public key (broadcast).") EXCEPT !.sendPub = FALSE],
           out |-> Some(PubkeyMsg(p, btoa(s.myPubRaw[1])))]

SendPub(p) ==
  /\ Click /\ peer[p].sendPub
  /\ LET run == sendPubBtnOnclick(p)
     IN /\ peer' = [peer EXCEPT ![p] = run.page]
        /\ inbox' = IF run.out = Absent THEN inbox ELSE Sent(p, run.out[1])
  /\ UNCHANGED tasks
  /\ UNCHANGED <<cryptoVars, relayVars, sideVars>>

\* deriveSharedKeyIfReady() up to its first await, for page state s: the
\* tasks it leaves suspended.
deriveSharedKeyIfReady(s) ==
  IF s.myPubRaw = Absent \/ s.peerPubRaw = Absent \/ s.myKeys = Absent
  THEN <<>>
  ELSE <<Task("import", s.peerPubRaw[1], 0, Absent)>>

\* handleMessage(msg) for a pubkey envelope.
HandlePubkey(p, msg) ==
  LET raw == base64ToArrayBuffer(msg.pub)
      s == [Logged(peer[p], IF peer[p].peerPubRaw = Absent
                            THEN "Received peer public key"
                            ELSE "Updated peer public key; re-deriving shared key.")
              EXCEPT !.peerPubRaw = Some(raw)]
  IN IF raw = B64Error
     THEN UNCHANGED <<peer, tasks>>
     ELSE /\ peer' = [peer EXCEPT ![p] = s]
          /\ tasks' = [tasks EXCEPT ![p] = @ \o deriveSharedKeyIfReady(s)]

\* A handler that gives the session key up when a decryption fails.
HandleCipherDroppingKey(s, msg) ==
  IF s.aesKey = Absent
  THEN Logged(s, "Received ciphertext but AES key not ready yet.")
  ELSE LET pt == decryptMessage(s.aesKey[1], msg.iv, msg.ct)
       IN IF pt.ok
          THEN [Logged(s, "Decrypted incoming message.")
                  EXCEPT !.messages = Append(@, [who |-> msg.name, body |-> pt.text])]
          ELSE [Logged(s, "Failed to decrypt incoming message")
                  EXCEPT !.aesKey = Absent, !.send = FALSE]

\* handleMessage(msg) for a cipher envelope, on page state s: the page state
\* it leaves.
handleMessageCipher(s, msg) ==
  IF s.aesKey = Absent
  THEN Logged(s, "Received ciphertext but AES key not ready yet.")
  ELSE LET pt == decryptMessage(s.aesKey[1], msg.iv, msg.ct)
       IN IF pt.ok
          THEN [Logged(s, "Decrypted incoming message.")
                  EXCEPT !.messages = Append(@, [who |-> msg.name, body |-> pt.text])]
          ELSE Logged(s, "Failed to decrypt incoming message")

HandleCipher(p, msg) ==
  /\ peer' = [peer EXCEPT ![p] = handleMessageCipher(@, msg)]
  /\ UNCHANGED tasks

\* A handler that takes an envelope of a kind it does not know for the end
\* of the session.
HandleOtherResetting(s, msg) ==
  [s EXCEPT !.peerPubRaw = Absent, !.aesKey = Absent, !.send = FALSE]

\* handleMessage(msg) for an envelope that is neither pubkey nor cipher, on
\* page state s: the page state it leaves.
handleMessageOther(s, msg) ==
  IF msg.type = "hello" THEN Logged(s, "Peer presence") ELSE s

\* ws.onmessage: JSON.parse and handleMessage, up to the first await.
Receive(p) ==
  /\ inbox[p] # <<>>
  /\ inbox' = [inbox EXCEPT ![p] = Tail(@)]
  /\ LET msg == Head(inbox[p])
     IN IF msg.type = "pubkey" THEN HandlePubkey(p, msg)
        ELSE IF msg.type = "cipher" THEN HandleCipher(p, msg)
        ELSE /\ peer' = [peer EXCEPT ![p] = handleMessageOther(@, msg)]
             /\ UNCHANGED tasks
  /\ UNCHANGED clicks
  /\ UNCHANGED <<cryptoVars, relayVars, sideVars>>

\* The i-th suspended async function of the page runs on to its next await
\* or to its end.
Resume(p, i) ==
  /\ i \in 1..Len(tasks[p])
  /\ LET t == tasks[p][i]
         s == peer[p]
     IN \/ /\ t.phase = "export"
           /\ peer' = [peer EXCEPT ![p] =
                [Logged(s, "ECDH keypair generated (P-256).")
                   EXCEPT !.myPubRaw = Some(t.raw), !.sendPub = TRUE]]
           /\ tasks' = [tasks EXCEPT ![p] = RemoveAt(@, i)]
        \/ /\ t.phase = "import"
           /\ IF importRaw(t.raw) = ImportError
              THEN /\ peer' = [peer EXCEPT ![p] = Logged(s, "Error deriving shared key")]
                   /\ tasks' = [tasks EXCEPT ![p] = RemoveAt(@, i)]
              ELSE /\ tasks' = [tasks EXCEPT ![p][i] =
                        Task("bits", t.raw,
                             deriveBits(s.myKeys[1].privateKey, importRaw(t.raw)),
                             Absent)]
                   /\ UNCHANGED peer
        \/ /\ t.phase = "bits"
           /\ tasks' = [tasks EXCEPT ![p][i] =
                Task("key", t.raw, t.bits,
                     Some(Hkdf(t.bits, Part006Salt(s.myPubRaw[1], s.peerPubRaw[1]),
                               Part006Info)))]
           /\ UNCHANGED peer
        \/ /\ t.phase = "key"
           /\ peer' = [peer EXCEPT ![p] =
                [Logged(s, "Derived AES-GCM (256) shared key via HKDF-SHA256.")
                   EXCEPT !.aesKey = t.key, !.send = TRUE]]
           /\ tasks' = [tasks EXCEPT ![p] = RemoveAt(@, i)]
  /\ UNCHANGED <<inbox, clicks>>
  /\ UNCHANGED <<cryptoVars, relayVars, sideVars>>

\* A send handler without the check for a session key: the text goes out
\* as it was typed.
SendInTheClear(p, typed, draw) ==
  LET s == peer[p]
      text == Trim(typed)
      enc == IF s.aesKey = Absent
             THEN [iv |-> <<>>, ct |-> arrayBufferToBase64(Utf8Encode(text))]
             ELSE Part006Encrypt(s.aesKey[1], text, getRandomValues(draw))
  IN IF text = <<>> THEN [page |-> s, out |-> Absent]
     ELSE [page |-> [Logged(s, "Sent encrypted message (relayed).")
                       EXCEPT !.messages = Append(@, [who |-> "You", body |-> text])],
           out |-> Some(CipherMsg(p, enc))]

\* sendBtn.onclick on page p with text typed into the message box; draw is
\* what getRandomValues returns.  The page state it leaves and what it hands
\* to ws.send, which throws unless the socket is open or closed.
sendBtnOnclick(p, typed, draw) ==
  LET s == peer[p]
      text == Trim(typed)
  IN IF text = <<>> THEN [page |-> s, out |-> Absent]
     ELSE IF s.aesKey = Absent
     THEN [page |-> Alerted(s, "Shared AES key not ready."), out |-> Absent]
     ELSE IF s.ws \notin {"open", "closed"}
     THEN [page |-> Logged(s, "Encryption/sending failed"), out |-> Absent]
     ELSE [page |-> [Logged(s, "Sent encrypted message (relayed).")
                       EXCEPT !.messages = Append(@, [who |-> "You", body |-> text])],
           out |-> Some(CipherMsg(p,
                     Part006Encrypt(s.aesKey[1], text, getRandomValues(draw))))]

Send(p, typed, draw) ==
  /\ Click /\ peer[p].send
  /\ LET run == sendBtnOnclick(p, typed, draw)
     IN /\ peer' = [peer EXCEPT ![p] = run.page]
        /\ inbox' = IF run.out = Absent THEN inbox ELSE Sent(p, run.out[1])
  /\ UNCHANGED tasks
  /\ UNCHANGED <<cryptoVars, relayVars, sideVars>>

Next ==
  \/ \E p \in Peers : Connect(p)
  \/ \E p \in Peers : Disconnect(p)
  \/ \E p \in Peers, early \in BOOLEAN : OnOpen(p, early)
  \/ \E p \in Peers, scalar \in Scalars : GenKey(p, scalar)
  \/ \E p \in Peers : SendPub(p)
  \/ \E p \in Peers : Receive(p)
  \/ \E p \in Peers, i \in 1..MaxClicks : Resume(p, i)
  \/ \E p \in Peers, typed \in Typed, draw \in Draws : Send(p, typed, draw)

Spec == Init /\ [][Next]_vars

\* ------------------------------------------------ one page and its relay
\* One page, "left", and a relay that hands it whatever some other
\* connection submitted: public keys that import and public keys that do
\* not, cipher envelopes sealed under the session key of some remote peer,
\* and envelopes damaged on the way.
RemoteKeys == {genECDH(r) : r \in Scalars}

\* Raw public keys: those of the remote peers, a value that is no point of
\* the curve, and one of the wrong length.
PubkeyBytes ==
  {exportRaw(k.publicKey) : k \in RemoteKeys}
    \cup {<<PointPrefix, 0>>, <<PointPrefix>>}

\* A string that is not base64.
NotBase64 == <<0>>

ArrivingKeys ==
  {PubkeyMsg("right", btoa(raw)) : raw \in PubkeyBytes}
    \cup {PubkeyMsg("right", NotBase64)}

\* The session key remote peer k holds towards a page whose scalar is l.
RemoteSessionKey(k, l) ==
  Part006Derive(k.privateKey, exportRaw(k.publicKey), exportRaw(genECDH(l).publicKey))

Sealed(key) == CipherMsg("right", Part006Encrypt(key, Hello, getRandomValues(0)))

\* An envelope that lost the end of its ciphertext on the way.
Damaged(env) == [env EXCEPT !.ct = SubSeq(@, 1, Len(@) - 4)]

ArrivingCiphers ==
  {Sealed(RemoteSessionKey(k, l)) : k \in RemoteKeys, l \in Scalars}
    \cup {Damaged(Sealed(RemoteSessionKey(k, l))) : k \in RemoteKeys, l \in Scalars}

\* Envelopes of other kinds: the presence message of the relay chat, the
\* theme message of the two-panel client, and one without a type.
ArrivingOthers ==
  {HelloMsg("right"),
   Envelope("theme", "right", <<>>, <<>>, <<>>),
   Envelope(Undefined, "right", <<>>, <<>>, <<>>)}

\* The relay delivers env to page p.
Deliver(p, env) ==
  /\ Click /\ peer[p].ws = "open"
  /\ inbox' = [inbox EXCEPT ![p] = Append(@, env)]
  /\ UNCHANGED <<peer, tasks>>
  /\ UNCHANGED <<cryptoVars, relayVars, sideVars>>

\* The page after Connect and Generate keypair, with scalar l.  The markup
\* of the page is not part of the source: the send button may or may not be
\* disabled when the page loads.
KeypairReady(l, enabled) ==
  [InitPage EXCEPT
     !.ws = "open", !.genKey = TRUE, !.sendPub = TRUE, !.send = enabled,
     !.myKeys = Some(genECDH(l)),
     !.myPubRaw = Some(exportRaw(genECDH(l).publicKey)),
     !.log = <<"Connected to relay server", "ECDH keypair generated (P-256).">>]

\* The same page after it received the public key of remote peer k and
\* derived its session key.
SessionKeyReady(l, k) ==
  [KeypairReady(l, TRUE) EXCEPT
     !.peerPubRaw = Some(exportRaw(k.publicKey)),
     !.aesKey = Some(Part006Derive(l, exportRaw(genECDH(l).publicKey),
                                   exportRaw(k.publicKey))),
     !.log = @ \o <<"Received peer public key",
                     "Derived AES-GCM (256) shared key via HKDF-SHA256.">>]

\* The runs of one page go on for MaxEvents clicks and deliveries.
InitOnePage(pages) ==
  /\ CryptoIdle /\ RelayIdle /\ SideIdle
  /\ \E s \in pages : peer = [p \in Peers |-> IF p = "left" THEN s ELSE InitPage]
  /\ inbox = [p \in Peers |-> <<>>]
  /\ tasks = [p \in Peers |-> <<>>]
  /\ clicks = MaxClicks - MaxEvents

InitKeys ==
  InitOnePage({KeypairReady(l, enabled) : l \in Scalars, enabled \in BOOLEAN}
                \cup {SessionKeyReady(l, k) : l \in Scalars, k \in RemoteKeys})

InitCiphers ==
  InitOnePage({KeypairReady(l, enabled) : l \in Scalars, enabled \in BOOLEAN}
                \cup {SessionKeyReady(l, k) : l \in Scalars, k \in RemoteKeys})

NextKeys ==
  \/ Connect("left")
  \/ Disconnect("left")
  \/ \E early \in BOOLEAN : OnOpen("left", early)
  \/ \E scalar \in Scalars : GenKey("left", scalar)
  \/ SendPub("left")
  \/ Receive("left")
  \/ \E i \in 1..MaxClicks : Resume("left", i)
  \/ \E typed \in Typed, draw \in Draws : Send("left", typed, draw)
  \/ \E env \in ArrivingKeys : Deliver("left", env)

NextCiphers ==
  \/ Connect("left")
  \/ Disconnect("left")
  \/ \E early \in BOOLEAN : OnOpen("left", early)
  \/ \E scalar \in Scalars : GenKey("left", scalar)
  \/ SendPub("left")
  \/ Receive("left")
  \/ \E i \in 1..MaxClicks : Resume("left", i)
  \/ \E typed \in Typed, draw \in Draws : Send("left", typed, draw)
  \/ \E env \in ArrivingCiphers : Deliver("left", env)

NextOthers ==
  \/ Connect("left")
  \/ Disconnect("left")
  \/ \E early \in BOOLEAN : OnOpen("left", early)
  \/ \E scalar \in Scalars : GenKey("left", scalar)
  \/ SendPub("left")
  \/ Receive("left")
  \/ \E i \in 1..MaxClicks : Resume("left", i)
  \/ \E typed \in Typed, draw \in Draws : Send("left", typed, draw)
  \/ \E env \in ArrivingOthers : Deliver("left", env)

SpecKeys == InitKeys /\ [][NextKeys]_vars

\* The page after Connect, before any keypair.  The browser runs every
\* message event that is queued and every async function whose await has
\* settled.
Connected ==
  [InitPage EXCEPT !.ws = "open", !.genKey = TRUE,
                   !.log = <<"Connected to relay server">>]

InitLive == InitOnePage({Connected})

SpecLive ==
  /\ InitLive /\ [][NextKeys]_vars
  /\ WF_vars(Receive("left"))
  /\ WF_vars(\E i \in 1..MaxClicks : Resume("left", i))
SpecOthers == InitCiphers /\ [][NextOthers]_vars
SpecCiphers == InitCiphers /\ [][NextCiphers]_vars

\* ------------------------------------------- one page: decryptions under way
\* ws.onmessage is an async function: it returns at the await inside
\* decryptMessage, the next message event is handled while the decryption
\* is under way, and crypto.subtle.decrypt settles its promises in the order
\* in which the operations end.

\* The text of the k-th envelope of a run.
Numbered(k) == <<104 + k>>

\* How many envelopes the relay has delivered in this run.
Arrived == clicks - (MaxClicks - MaxEvents)

\* The relay delivers the next envelope, sealed under the session key of
\* the page, whole or damaged on the way.
Arrive(p, damaged) ==
  /\ Click /\ peer[p].ws = "open" /\ peer[p].aesKey # Absent
  /\ LET env == CipherMsg("right", Part006Encrypt(peer[p].aesKey[1],
                    Numbered(Arrived + 1), getRandomValues(0)))
     IN inbox' = [inbox EXCEPT ![p] =
                    Append(@, IF damaged THEN Damaged(env) ELSE env)]
  /\ UNCHANGED <<peer, tasks>>
  /\ UNCHANGED <<cryptoVars, relayVars, sideVars>>

\* ws.onmessage for a cipher envelope up to the await in decryptMessage:
\* the decryption is started with the aesKey of the page.
ReceiveCipher(p) ==
  /\ inbox[p] # <<>> /\ Head(inbox[p]).type = "cipher"
  /\ inbox' = [inbox EXCEPT ![p] = Tail(@)]
  /\ LET msg == Head(inbox[p])
         s == peer[p]
     IN IF s.aesKey = Absent
        THEN /\ peer' = [peer EXCEPT ![p] =
                  Logged(s, "Received ciphertext but AES key not ready yet.")]
             /\ UNCHANGED tasks
        ELSE /\ tasks' = [tasks EXCEPT ![p] = Append(@, Task("decrypt", msg, 0, s.aesKey))]
             /\ UNCHANGED peer
  /\ UNCHANGED clicks
  /\ UNCHANGED <<cryptoVars, relayVars, sideVars>>

\* The decryption of the i-th suspended handler settles and the handler
\* runs to its end: appendMessage and log, or the log of the failure.
Settle(p, i) ==
  /\ i \in 1..Len(tasks[p]) /\ tasks[p][i].phase = "decrypt"
  /\ LET t == tasks[p][i]
         pt == decryptMessage(t.key[1], t.raw.iv, t.raw.ct)
     IN peer' = [peer EXCEPT ![p] =
          IF pt.ok
          THEN [Logged(@, "Decrypted incoming message.")
                  EXCEPT !.messages = Append(@, [who |-> t.raw.name, body |-> pt.text])]
          ELSE Logged(@, "Failed to decrypt incoming message")]
  /\ tasks' = [tasks EXCEPT ![p] = RemoveAt(@, i)]
  /\ UNCHANGED <<inbox, clicks>>
  /\ UNCHANGED <<cryptoVars, relayVars, sideVars>>

InitArrivals ==
  InitOnePage({SessionKeyReady(l, k) : l \in Scalars, k \in RemoteKeys})

NextArrivals ==
  \/ \E damaged \in BOOLEAN : Arrive("left", damaged)
  \/ ReceiveCipher("left")
  \/ \E i \in 1..MaxClicks : Settle("left", i)
  \/ \E typed \in Typed, draw \in Draws : Send("left", typed, draw)

SpecArrivals == InitArrivals /\ [][NextArrivals]_vars


\* ======================================================= identity registry
\* identity.sol and keyregistry.js: a contract that stores, per address, the
\* fingerprint of the public key the address registered, and the client
\* calls that register a key and verify one against the contract.
Addresses == {"0xA", "0xB"}

\* Public keys as the base64 text the client passes around, and a text that
\* is not base64.
RegistryKeys ==
  {btoa(exportRaw(genECDH(r).publicKey)) : r \in Privs} \cup {NotBase64}

\* bytes32(0), what the mapping holds for an address that never registered.
ZeroHash == <<"bytes32(0)", <<>>>>

\* keccak256 of the contract; SHA-256 is the digest of WebCrypto.  Two
\* different hash functions: their values on the same bytes differ.
Keccak256(bytes) == <<"keccak256", bytes>>

\* A registerKey that writes the fingerprint to every entry of the mapping.
RegisterForAll(userKeys, sender, pubKey) ==
  [a \in DOMAIN userKeys |-> Keccak256(pubKey)]

\* registerKey(pubKey) sent by msg.sender, on the mapping userKeys.
registerKey(userKeys, sender, pubKey) ==
  [userKeys EXCEPT ![sender] = Keccak256(pubKey)]

\* getKey(user)
getKey(userKeys, user) == userKeys[user]

\* verifyOnChainKey(pubKeyB64, userAddress): false when nothing is
\* registered and when anything throws, else whether the fingerprint on
\* chain equals the SHA-256 of the key, both as hex text.
verifyOnChainKey(userKeys, pubKeyB64, userAddress) ==
  LET fingerprintOnChain == getKey(userKeys, userAddress)
      raw == atob(pubKeyB64)
  IN IF fingerprintOnChain = ZeroHash THEN FALSE
     ELSE IF raw = B64Error THEN FALSE
     ELSE fingerprintOnChain = Sha256(raw)

InitRegistry ==
  /\ CryptoIdle /\ RelayIdle /\ PeersIdle
  /\ demo = DemoIdle /\ wire = WireIdle /\ manual = ManualIdle
  /\ chain = [userKeys |-> [a \in Addresses |-> ZeroHash], last |-> [op |-> "none"]]

\* registerECDHKey(pubKeyB64) with the wallet of address: atob throws on
\* text that is not base64, and the error is thrown on.
RegisterECDHKey(address, pubKeyB64) ==
  /\ LET raw == atob(pubKeyB64)
     IN chain' =
          [userKeys |-> IF raw = B64Error THEN chain.userKeys
                        ELSE registerKey(chain.userKeys, address, raw),
           last |-> [op |-> "register", key |-> pubKeyB64, user |-> address,
                     result |-> raw # B64Error]]
  /\ UNCHANGED <<cryptoVars, relayVars, peerVars, otherThanChain>>

VerifyOnChainKey(pubKeyB64, userAddress) ==
  /\ chain' = [chain EXCEPT !.last =
       [op |-> "verify", key |-> pubKeyB64, user |-> userAddress,
        result |-> verifyOnChainKey(chain.userKeys, pubKeyB64, userAddress)]]
  /\ UNCHANGED <<cryptoVars, relayVars, peerVars, otherThanChain>>

NextRegistry ==
  \/ \E address \in Addresses, key \in RegistryKeys : RegisterECDHKey(address, key)
  \/ \E key \in RegistryKeys, address \in Addresses : VerifyOnChainKey(key, address)

SpecRegistry == InitRegistry /\ [][NextRegistry]_vars

\* ========================================================= two-panel demo
\* The demo in web3.js: panels "alice" and "bob" in one page, each with a
\* keypair, a box to paste the other's public key into, a hidden receive
\* buffer the other panel writes to, and a timer that decrypts what is in
\* the buffer.
Panels == {"alice", "bob"}
OtherPanel(side) == IF side = "alice" THEN "bob" ELSE "alice"

\* What a user may paste into a peer box (text with no space around it).
Pasted == {btoa(exportRaw(genECDH(r).publicKey)) : r \in Scalars} \cup {NotBase64}

\* deriveAES(priv, pub): the AES-GCM key is taken from the ECDH secret
\* directly, with no salt and no info.
deriveAES(priv, pub) ==
  [ikm |-> deriveBits(priv, pub), salt |-> <<"none", <<>>>>, info |-> <<>>]

\* aesEnc(key, msg) with the iv that randIV returned; no additional data.
aesEnc(key, msg, iv) ==
  [iv |-> btoa(iv), ct |-> btoa(AesGcmEncrypt(key, iv, <<>>, Utf8Encode(msg)))]

\* aesDec(key, ivB64, ctB64)
aesDec(key, ivB64, ctB64) ==
  LET iv == atob(ivB64)
      ct == atob(ctB64)
      plain == AesGcmDecrypt(key, iv, <<>>, ct)
  IN IF iv = B64Error \/ ct = B64Error \/ ~plain.ok THEN Thrown
     ELSE [ok |-> TRUE, text |-> Utf8Decode(plain.data)]

InitPanel ==
  [keys |-> Absent, pub |-> <<>>, aes |-> Absent, recvbuf |-> Absent,
   chat |-> <<>>, alert |-> NoAlert]

InitDemo ==
  /\ CryptoIdle /\ RelayIdle /\ PeersIdle
  /\ chain = ChainIdle /\ wire = WireIdle /\ manual = ManualIdle
  /\ demo = [panel |-> [side \in Panels |-> InitPanel], clicks |-> 0,
             timer |-> "idle", held |-> Absent]

\* The page after one more click that leaves the panels as next.
Clicked(next) == [demo EXCEPT !.panel = next, !.clicks = @ + 1]

\* alice-gen / bob-gen onclick
DemoGen(side, scalar) ==
  /\ demo.clicks < MaxDemoClicks
  /\ LET keys == genECDH(scalar)
     IN demo' = Clicked([demo.panel EXCEPT ![side] =
          [@ EXCEPT !.keys = Some(keys),
                    !.pub = btoa(exportRaw(keys.publicKey)),
                    !.alert = "keypair ready"]])
  /\ UNCHANGED <<cryptoVars, relayVars, peerVars, otherThanDemo>>

\* alice-derive / bob-derive onclick with text in the peer box: a text that
\* does not import, or a panel without keys, rejects the promise of the
\* handler and nothing else happens.
DemoDerive(side, text) ==
  /\ demo.clicks < MaxDemoClicks
  /\ LET raw == atob(text)
         pub == IF raw = B64Error THEN ImportError ELSE importRaw(raw)
         me == demo.panel[side]
     IN demo' = Clicked(
          IF pub = ImportError \/ me.keys = Absent THEN demo.panel
          ELSE [demo.panel EXCEPT ![side] =
                  [@ EXCEPT !.aes = Some(deriveAES(me.keys[1].privateKey, pub)),
                            !.alert = "derived AES key"]])
  /\ UNCHANGED <<cryptoVars, relayVars, peerVars, otherThanDemo>>

\* alice-send / bob-send onclick. The payload iv + "|" + ct is kept as the
\* pair the timer splits it into: base64 text holds no "|".
DemoSend(side, typed, draw) ==
  /\ demo.clicks < MaxDemoClicks
  /\ LET msg == Trim(typed)
         me == demo.panel[side]
         other == OtherPanel(side)
     IN demo' = Clicked(
          IF msg = <<>> \/ me.aes = Absent THEN demo.panel
          ELSE [demo.panel EXCEPT
                  ![side].chat = Append(@, [who |-> side, text |-> msg]),
                  ![other].recvbuf =
                    Some(aesEnc(me.aes[1], msg, getRandomValues(draw))),
                  ![other].chat =
                    Append(@, [who |-> side, text |-> "(encrypted msg received)"])])
  /\ UNCHANGED <<cryptoVars, relayVars, peerVars, otherThanDemo>>

\* The timer callback up to its first await, or to its end when there is
\* nothing to decrypt: it looks at alice's buffer, then at bob's, and stops
\* at the first decryption it starts.  from is the panel it starts to look at.
TimerFrom(panels, from) ==
  LET due(side) == panels[side].aes # Absent /\ panels[side].recvbuf # Absent
  IN IF from = "alice" /\ due("alice")
     THEN [timer |-> "alice", held |-> panels["alice"].recvbuf]
     ELSE IF due("bob")
     THEN [timer |-> "bob", held |-> panels["bob"].recvbuf]
     ELSE [timer |-> "idle", held |-> Absent]

\* The interval runs out and the callback starts.  A callback is taken to
\* have ended before the next one starts.
DemoTick ==
  /\ demo.timer = "idle"
  /\ \E side \in Panels :
       demo.panel[side].aes # Absent /\ demo.panel[side].recvbuf # Absent
  /\ demo' = [demo EXCEPT !.timer = TimerFrom(demo.panel, "alice").timer,
                          !.held = TimerFrom(demo.panel, "alice").held]
  /\ UNCHANGED <<cryptoVars, relayVars, peerVars, otherThanDemo>>

\* The decryption the callback waits for settles: the text is shown, or the
\* error is caught and dropped; the buffer of the panel is emptied, whatever
\* it holds by now; after alice's panel the callback goes on to bob's.
DemoSettle ==
  /\ demo.timer \in Panels
  /\ LET side == demo.timer
         me == demo.panel[side]
         pt == aesDec(me.aes[1], demo.held[1].iv, demo.held[1].ct)
         after == [demo.panel EXCEPT
                     ![side].recvbuf = Absent,
                     ![side].chat =
                       IF pt.ok
                       THEN Append(@, [who |-> OtherPanel(side), text |-> pt.text])
                       ELSE @]
         next == IF side = "alice" THEN TimerFrom(after, "bob")
                 ELSE [timer |-> "idle", held |-> Absent]
     IN demo' = [demo EXCEPT !.panel = after, !.timer = next.timer,
                             !.held = next.held]
  /\ UNCHANGED <<cryptoVars, relayVars, peerVars, otherThanDemo>>

NextDemo ==
  \/ \E side \in Panels, scalar \in Scalars : DemoGen(side, scalar)
  \/ \E side \in Panels, text \in Pasted : DemoDerive(side, text)
  \/ \E side \in Panels, draw \in Draws : DemoSend(side, Hello, draw)
  \/ DemoTick
  \/ DemoSettle

SpecDemo == InitDemo /\ [][NextDemo]_vars

\* ==================================================== manual-decrypt client
\* client/script.js: one page with the panels "left" and "right", one socket
\* to the relay, and a Decrypt button per panel for the ciphertext that
\* arrived last.  The markup is not part of the source: every element the
\* script looks up is taken to be there.
Sides == {"left", "right"}

\* A text field of an envelope that is not there.
NoField == <<-2>>
OtherSide(side) == IF side = "left" THEN "right" ELSE "left"

InitSide ==
  [keys |-> Absent, pubRaw |-> Absent, pubTa |-> <<>>, aes |-> Absent,
   chat |-> <<>>, input |-> <<>>, decryptBtn |-> FALSE]

\* The page as loaded; received is the history of what the relay delivered.
InitManualPage ==
  [ws |-> "none", side |-> [x \in Sides |-> InitSide],
   latestCipher |-> [x \in Sides |-> Absent],
   alert |-> NoAlert, log |-> <<>>, out |-> <<>>, received |-> <<>>]

Bubble(kind, text) == [kind |-> kind, text |-> text]
ManualLogged(m, line) == [m EXCEPT !.log = Append(@, line)]
ManualAlerted(m, text) == [m EXCEPT !.alert = text]

\* sendRelay(obj)
sendRelay(m, obj) ==
  IF m.ws # "open"
  THEN ManualAlerted(
         ManualLogged(ManualLogged(m, "WebSocket not connected."),
                      "Cannot send: WebSocket not connected."),
         "WebSocket relay is not connected.")
  ELSE [m EXCEPT !.out = Append(@, obj)]

\* A handler that keeps the ciphertext it holds until it is replaced by hand.
HandleIncomingKeepingFirst(m, msg) ==
  IF msg.type # "cipher" THEN m
  ELSE IF msg.iv = NoField \/ msg.ct = NoField
  THEN ManualLogged(m, "handleIncomingRelay error")
  ELSE IF msg.target \in Sides /\ m.latestCipher[msg.target] = Absent
  THEN [m EXCEPT !.latestCipher[msg.target] = Some([iv |-> msg.iv, ct |-> msg.ct]),
                 !.side[msg.target].decryptBtn = TRUE]
  ELSE m

\* handleIncomingRelay(msg).  iv.slice and ct.slice throw on a cipher
\* envelope without iv or ct, and the catch logs it; the theme of the page is
\* not part of the model.
handleIncomingRelay(m, msg) ==
  IF ~Truthy(msg.type) THEN m
  ELSE IF msg.type = "theme" THEN ManualLogged(m, "Theme updated remotely")
  ELSE IF msg.type = "pubkey"
  THEN LET l == ManualLogged(m, "relay: pubkey")
       IN IF msg.side \in Sides /\ l.side[msg.side].pubTa = <<>>
          THEN [l EXCEPT !.side[msg.side].pubTa = msg.pub] ELSE l
  ELSE IF msg.type = "cipher"
  THEN IF msg.iv = NoField \/ msg.ct = NoField
       THEN ManualLogged(m, "handleIncomingRelay error")
       ELSE IF msg.target \in Sides
       THEN ManualLogged(
              [m EXCEPT !.latestCipher[msg.target] = Some([iv |-> msg.iv, ct |-> msg.ct]),
                        !.side[msg.target].decryptBtn = TRUE,
                        !.side[msg.target].chat = Append(@, Bubble("ciphertext", msg.ct))],
              "received encrypted message")
       ELSE m
  ELSE ManualLogged(m, "relay: unknown message type")

\* leftGenBtn / rightGenBtn click
leftGen(m, side, scalar) ==
  LET keys == genECDH(scalar)
      raw == exportRaw(keys.publicKey)
  IN ManualLogged(
       [m EXCEPT !.side[side].keys = Some(keys), !.side[side].pubRaw = Some(raw),
                 !.side[side].pubTa = arrayBufferToBase64(raw)],
       "keypair generated.")

\* leftSendPubBtn / rightSendPubBtn click
leftSendPub(m, side) ==
  IF m.side[side].pubTa = <<>>
  THEN ManualAlerted(m, "public key missing. Generate first.")
  ELSE ManualLogged(
         sendRelay(m, [type |-> "pubkey", side |-> side, pub |-> m.side[side].pubTa]),
         "public key broadcast to relay.")

\* A derive handler that makes up a keypair when the panel has none.
DeriveWithoutKeypair(m, side, pasted) ==
  LET me == m.side[side]
      raw == base64ToArrayBuffer(pasted)
      mine == IF me.keys = Absent THEN genECDH(1) ELSE me.keys[1]
  IN IF pasted = <<>> \/ raw = B64Error \/ importRaw(raw) = ImportError
     THEN ManualAlerted(m, "Derive AES key failed")
     ELSE [m EXCEPT !.side[side].aes =
             Some(deriveAesKeyFromECDH(mine.privateKey, importRaw(raw),
                                       exportRaw(mine.publicKey), raw))]

\* leftDeriveBtn / rightDeriveBtn click with pasted in the peer box (text
\* with no space around it).
leftDerive(m, side, pasted) ==
  LET me == m.side[side]
      raw == base64ToArrayBuffer(pasted)
  IN IF me.keys = Absent
     THEN ManualAlerted(m, "keys missing. Generate keypair first.")
     ELSE IF pasted = <<>>
     THEN ManualAlerted(m, "Paste peer public key first.")
     ELSE IF raw = B64Error \/ importRaw(raw) = ImportError
     THEN ManualAlerted(ManualLogged(m, "derive failure"), "Derive AES key failed")
     ELSE ManualLogged(
            [m EXCEPT !.side[side].aes =
               Some(deriveAesKeyFromECDH(me.keys[1].privateKey, importRaw(raw),
                                         me.pubRaw[1], raw))],
            "derived AES key successfully.")

\* leftSend / rightSend click with typed in the input box; draw is what
\* getRandomValues returns.
leftSend(m, side, typed, draw) ==
  LET me == m.side[side]
      msg == Trim(typed)
      box == [m EXCEPT !.side[side].input = typed]
  IN IF me.aes = Absent THEN ManualAlerted(box, "must derive AES key first")
     ELSE IF msg = <<>> THEN box
     ELSE LET enc == encryptAesGcmBase64(me.aes[1], msg, Absent, getRandomValues(draw))
              shown == [m EXCEPT !.side[side].chat = Append(@, Bubble("you", msg))]
              sent == sendRelay(shown, [type |-> "cipher", from |-> side,
                                        target |-> OtherSide(side),
                                        iv |-> enc.iv, ct |-> enc.ct])
          IN ManualLogged([sent EXCEPT !.side[side].input = <<>>],
                          "sent encrypted message")

\* leftDecryptBtn / rightDecryptBtn click: the ciphertext and the key are
\* read before the await.
leftDecrypt(m, side) ==
  LET me == m.side[side]
      data == m.latestCipher[side]
  IN IF data = Absent \/ me.aes = Absent
     THEN ManualAlerted(m, "No cipher or key to decrypt.")
     ELSE LET pt == decryptAesGcmBase64(me.aes[1], data[1].iv, data[1].ct, Absent)
          IN IF pt.ok
             THEN ManualLogged(
                    [m EXCEPT !.side[side].chat = Append(@, Bubble("decrypted", pt.text)),
                              !.side[side].decryptBtn = FALSE],
                    "manually decrypted message")
             ELSE ManualAlerted(m, "Decrypt failed")

\* What the relay may deliver: cipher envelopes for either panel or for a
\* third peer, sealed under the key of the two panels or under another key,
\* with or without iv and ct; a public key; a theme; an unknown type; an
\* object without a type.
ManualEnvelope(type, target, iv, ct) ==
  [type |-> type, target |-> target, iv |-> iv, ct |-> ct,
   side |-> Undefined, pub |-> NoField]

PanelKey(l, r) ==
  deriveAesKeyFromECDH(l, genECDH(r).publicKey,
                       exportRaw(genECDH(l).publicKey), exportRaw(genECDH(r).publicKey))

ManualCiphers ==
  {ManualEnvelope("cipher", "left", enc.iv, enc.ct) :
     enc \in {encryptAesGcmBase64(key, Hello, Absent, getRandomValues(draw)) :
                key \in {PanelKey(1, 3), PanelKey(3, 3)}, draw \in {0, 1}}}
  \cup {ManualEnvelope("cipher", target, Sealed(PanelKey(1, 3)).iv,
                       Sealed(PanelKey(1, 3)).ct) : target \in {"right", "third"}}
  \cup {ManualEnvelope("cipher", "left", NoField, Sealed(PanelKey(1, 3)).ct),
        ManualEnvelope("cipher", "right", Sealed(PanelKey(1, 3)).iv, NoField)}

ManualArriving ==
  ManualCiphers
    \cup {[ManualEnvelope("pubkey", Undefined, NoField, NoField)
             EXCEPT !.side = "left", !.pub = btoa(exportRaw(genECDH(3).publicKey))],
          ManualEnvelope("theme", Undefined, NoField, NoField),
          ManualEnvelope("hello", Undefined, NoField, NoField),
          ManualEnvelope(Undefined, Undefined, NoField, NoField)}

\* The page after both panels generated a keypair and derived the session
\* key from the public key of the other.
PanelsReady ==
  [InitManualPage EXCEPT
     !.side = [x \in Sides |->
        LET mine == IF x = "left" THEN 1 ELSE 3
            theirs == IF x = "left" THEN 3 ELSE 1
        IN [InitSide EXCEPT
              !.keys = Some(genECDH(mine)),
              !.pubRaw = Some(exportRaw(genECDH(mine).publicKey)),
              !.pubTa = arrayBufferToBase64(exportRaw(genECDH(mine).publicKey)),
              !.aes = Some(PanelKey(mine, theirs))]],
     !.log = <<"keypair generated.", "keypair generated.",
               "derived AES key successfully.", "derived AES key successfully.">>]

\* A run goes on for MaxEvents clicks and deliveries.
InitManual ==
  /\ CryptoIdle /\ RelayIdle /\ PeersIdle
  /\ chain = ChainIdle /\ demo = DemoIdle /\ wire = WireIdle
  /\ \E page \in {InitManualPage, PanelsReady}, ws \in {"none", "open"} :
       manual = [page |-> [page EXCEPT !.ws = ws], events |-> 0]

ManualEvent(next) == [page |-> next, events |-> manual.events + 1]

\* wsConnectBtn click and ws.onopen
ManualConnect ==
  /\ manual.events < MaxEvents /\ manual.page.ws # "open"
  /\ manual' = ManualEvent(ManualLogged([manual.page EXCEPT !.ws = "open"],
                                        "WebSocket connected"))
  /\ UNCHANGED <<cryptoVars, relayVars, peerVars, otherThanManual>>

\* ws.onclose
ManualClose ==
  /\ manual.events < MaxEvents /\ manual.page.ws = "open"
  /\ manual' = ManualEvent(ManualLogged([manual.page EXCEPT !.ws = "closed"],
                                        "WebSocket disconnected"))
  /\ UNCHANGED <<cryptoVars, relayVars, peerVars, otherThanManual>>

\* ws.onmessage
ManualIncoming(msg) ==
  /\ manual.events < MaxEvents /\ manual.page.ws = "open"
  /\ manual' = ManualEvent(
       [handleIncomingRelay(manual.page, msg) EXCEPT !.received = Append(@, msg)])
  /\ UNCHANGED <<cryptoVars, relayVars, peerVars, otherThanManual>>

ManualGen(side, scalar) ==
  /\ manual.events < MaxEvents
  /\ manual' = ManualEvent(leftGen(manual.page, side, scalar))
  /\ UNCHANGED <<cryptoVars, relayVars, peerVars, otherThanManual>>

ManualSendPub(side) ==
  /\ manual.events < MaxEvents
  /\ manual' = ManualEvent(leftSendPub(manual.page, side))
  /\ UNCHANGED <<cryptoVars, relayVars, peerVars, otherThanManual>>

ManualDerive(side, pasted) ==
  /\ manual.events < MaxEvents
  /\ manual' = ManualEvent(leftDerive(manual.page, side, pasted))
  /\ UNCHANGED <<cryptoVars, relayVars, peerVars, otherThanManual>>

ManualSend(side, typed, draw) ==
  /\ manual.events < MaxEvents
  /\ manual' = ManualEvent(leftSend(manual.page, side, typed, draw))
  /\ UNCHANGED <<cryptoVars, relayVars, peerVars, otherThanManual>>

\* The Decrypt button is disabled after a decryption until the next
\* ciphertext for the panel arrives; before the first one the markup decides.
ManualDecrypt(side) ==
  /\ manual.events < MaxEvents
  /\ manual.page.side[side].decryptBtn \/ manual.page.latestCipher[side] = Absent
  /\ manual' = ManualEvent(leftDecrypt(manual.page, side))
  /\ UNCHANGED <<cryptoVars, relayVars, peerVars, otherThanManual>>

\* The page with its socket, what arrives on it, and the Send and Decrypt
\* buttons.
NextManual ==
  \/ ManualConnect
  \/ ManualClose
  \/ \E msg \in ManualArriving : ManualIncoming(msg)
  \/ \E side \in Sides, typed \in Typed, draw \in Draws : ManualSend(side, typed, draw)
  \/ \E side \in Sides : ManualDecrypt(side)

\* The page with its socket and the buttons of the two panels that make and
\* use keys.
NextPanels ==
  \/ ManualConnect
  \/ ManualClose
  \/ \E side \in Sides, scalar \in Scalars : ManualGen(side, scalar)
  \/ \E side \in Sides : ManualSendPub(side)
  \/ \E side \in Sides, pasted \in Pasted \cup {<<>>} : ManualDerive(side, pasted)
  \/ \E side \in Sides, typed \in Typed, draw \in Draws : ManualSend(side, typed, draw)

SpecManual == InitManual /\ [][NextManual]_vars
SpecPanels == InitManual /\ [][NextPanels]_vars

\* =================================================================== claims

\* ---- C3 -----------------------------------------------------------------
\* C3: for all keypairs a and b, the session key A derives from a's private
\* key, b's public key and the salt of (a.pub, b.pub) equals the session key
\* B derives from b's private key, a's public key and the salt of
\* (b.pub, a.pub).
C3_AgreementSymmetric ==
  (dh.mode = "agree" /\ dh.keyA # Absent /\ dh.keyB # Absent)
    => dh.keyA = dh.keyB

\* Both peers have derived, from different keypairs, and A's public key is
\* the byte-wise larger one (so A and B concatenate in opposite call order).
C3_Witness ==
  /\ dh.mode = "agree" /\ dh.keyA # Absent /\ dh.keyB # Absent
  /\ dh.a.privateKey # dh.b.privateKey
  /\ compareUint8Arrays(exportRaw(dh.a.publicKey), exportRaw(dh.b.publicKey)) > 0

\* ---- C4 -----------------------------------------------------------------
\* x sorts before y byte-lexicographically: at the first differing byte x
\* has the smaller one, or x is a proper prefix of y.
LexLess(x, y) ==
  \E k \in 0..Min(Len(x), Len(y)) :
    /\ \A i \in 1..k : x[i] = y[i]
    /\ \/ k = Len(x) /\ k < Len(y)
       \/ k < Len(x) /\ k < Len(y) /\ x[k + 1] < y[k + 1]

\* C4: the agreement salt of (X, Y) equals that of (Y, X), and it is the hash
\* of the byte-lexicographically smaller key followed by the larger one (the
\* order is by the first differing byte, then by length).
C4_SaltOrderIndependent ==
  (dh.mode = "salt" /\ dh.xy # Absent /\ dh.yx # Absent)
    => /\ dh.xy = dh.yx
       /\ dh.xy[1] = Sha256(IF LexLess(dh.y, dh.x) THEN dh.y \o dh.x ELSE dh.x \o dh.y)

\* Both salts are computed for two different strings one of which is a
\* proper prefix of the other (the order is decided by the length).
C4_Witness ==
  /\ dh.mode = "salt" /\ dh.xy # Absent /\ dh.yx # Absent
  /\ Len(dh.y) < Len(dh.x) /\ dh.y # <<>>
  /\ SubSeq(dh.x, 1, Len(dh.y)) = dh.y

\* ---- C5 -----------------------------------------------------------------
\* The decrypt call was given exactly what the encrypt call used and returned.
AeIntact ==
  /\ ae.mode = "aead" /\ ae.out # Absent /\ ae.dec # Absent
  /\ ae.dec[1].key = ae.key /\ ae.dec[1].aad = ae.aad
  /\ ae.dec[1].iv = ae.out[1].iv /\ ae.dec[1].ct = ae.out[1].ct

\* C5: for every session key K, plaintext M and associated data, decrypting
\* the iv and ciphertext returned by encrypt(K, M) under the same K and the
\* same associated data returns exactly M.
C5_RoundTrip ==
  AeIntact => (ae.dec[1].res.ok /\ ae.dec[1].res.text = ae.m)

\* ---- C6 -----------------------------------------------------------------
\* The decrypt call's key, iv bytes, ciphertext-with-tag bytes and associated
\* data are those of the encrypt call.
AeExact ==
  /\ ae.dec[1].key = ae.key
  /\ base64ToArrayBuffer(ae.dec[1].iv) = base64ToArrayBuffer(ae.out[1].iv)
  /\ base64ToArrayBuffer(ae.dec[1].ct) = base64ToArrayBuffer(ae.out[1].ct)
  /\ AdditionalData(ae.dec[1].aad) = AdditionalData(ae.aad)

\* C6: decrypt returns a plaintext only when key, iv, ciphertext-with-tag and
\* associated data are exactly those of the encrypt call; with one bit of the
\* ciphertext or tag flipped, or another key, iv or associated data, it fails
\* and returns no plaintext, neither partial nor altered.
C6_TamperDetected ==
  (ae.mode = "aead" /\ ae.dec # Absent)
    => /\ ae.dec[1].res.ok => AeExact
       /\ ~AeExact => (~ae.dec[1].res.ok /\ ae.dec[1].res.text = <<>>)

\* A decrypt of a non-empty message whose ciphertext or tag had a bit flipped
\* has failed.
C6_Witness ==
  /\ ae.mode = "aead" /\ ae.dec # Absent /\ ae.m # <<>>
  /\ ae.dec[1].ct # ae.out[1].ct
  /\ ~ae.dec[1].res.ok

\* ---- C7 -----------------------------------------------------------------
\* C7 as claimed: across the encrypt calls made under one session key, no two
\* calls use the same IV.
C7_NoIvCollision ==
  nonce.mode = "nonce" =>
    \A i \in 1..Len(nonce.calls), j \in 1..Len(nonce.calls) :
      i # j => nonce.calls[i].out.iv # nonce.calls[j].out.iv

\* C7 as amended: every encrypt call uses as its IV the 12 bytes its own draw
\* from the random source returned, so two calls under one key have the same
\* IV only if the random source returned the same bytes to both.
C7_IvIsOwnDraw ==
  nonce.mode = "nonce" =>
    /\ \A i \in 1..Len(nonce.calls) :
         /\ base64ToArrayBuffer(nonce.calls[i].out.iv) = nonce.calls[i].rnd
         /\ Len(base64ToArrayBuffer(nonce.calls[i].out.iv)) = IvLength
    /\ \A i \in 1..Len(nonce.calls), j \in 1..Len(nonce.calls) :
         nonce.calls[i].out.iv = nonce.calls[j].out.iv
           => nonce.calls[i].rnd = nonce.calls[j].rnd

\* Two calls were made under the key and got different IVs.
C7_Witness ==
  /\ nonce.mode = "nonce" /\ Len(nonce.calls) >= 2
  /\ nonce.calls[1].out.iv # nonce.calls[2].out.iv

\* ------------------------------------------------------------ relay claims
\* The last event was a message whose parsed value is an envelope with a kind.
EnvelopeHandled ==
  ev.op = "message" /\ ev.raw.json = "object" /\ Truthy(ev.raw.type)

\* The connections a broadcast of the last message could reach: open when
\* the message arrived, not the sender, and their own send did not throw.
Reachable(c) == c # ev.conn /\ ev.before[c] = "OPEN" /\ c \notin ev.failing

FannedOut == \A c \in Conns : Len(outbox[c]) = IF Reachable(c) THEN 1 ELSE 0

\* C1: when connection A sends a parseable envelope that has a kind, every
\* other connection open at that moment gets it exactly once and A never
\* gets it back.
C1_FanOutExactlyOnce == EnvelopeHandled => FannedOut

\* C8: a raw message that does not parse, or whose parsed value (object or
\* not) has no type field, makes the handler complete without raising, send
\* nothing to anyone and leave every connection registered.
C8_DiscardedSilently ==
  (ev.op = "message" /\ (ev.raw.json = "invalid" \/ ev.raw.type = Undefined))
    => /\ ~ev.raised
       /\ outbox = NoDeliveries
       /\ clients = ev.before

\* C9: after non-parseable data the relay is still running with the same
\* registry and nothing was broadcast for it, and a later valid envelope is
\* still fanned out to all other open connections.
C9_SurvivesBadData ==
  /\ (ev.op = "message" /\ ev.raw.json = "invalid")
       => relay.up /\ clients = ev.before /\ outbox = NoDeliveries
  /\ (relay.seenBad /\ EnvelopeHandled) => FannedOut

\* C10: if sending to one recipient fails during a broadcast, every remaining
\* open recipient still gets the envelope, no error leaves the handler and
\* the sender's connection is as it was.
C10_SendFailureIsolated ==
  (EnvelopeHandled /\ \E f \in ev.failing : f # ev.conn /\ ev.before[f] = "OPEN")
    => /\ ~ev.raised
       /\ clients[ev.conn] = ev.before[ev.conn]
       /\ \A c \in Conns : Reachable(c) => Len(outbox[c]) = 1


\* What the last message would have been with target t and from f instead.
Readdressed(t, f) == [ev.raw EXCEPT !.target = t, !.from = f]
Names == {Undefined, "left", "right", "third"}
Recipients(sent) == {c \in Conns : sent[c] # <<>>}

C12_ForwardedVerbatim ==
  ev.op = "message" =>
    \A c \in Conns : \A i \in 1..Len(outbox[c]) : outbox[c][i] = ev.raw

\* C13: every envelope the relay forwards carries a timestamp: the one it
\* came with, or one the relay added when it came with none.
C13_ForwardedWithTimestamp ==
  (ev.op = "message" /\ ev.raw.json = "object") =>
    \A c \in Conns : \A i \in 1..Len(outbox[c]) :
      /\ outbox[c][i].timestamp # Undefined
      /\ ev.raw.timestamp # Undefined => outbox[c][i].timestamp = ev.raw.timestamp

\* C14: a connection that has disconnected is out of the registry and gets no
\* envelope of any later broadcast, and its disconnecting takes nothing away
\* from what a broadcast has already dispatched to the other connections.
C14_DisconnectedGetsNothing ==
  /\ [](\A c \in Conns : clients[c] = "CLOSED" => ~Registered(c) /\ outbox[c] = <<>>)
  /\ [](ev.op = "close" => clients[ev.conn] = "CLOSED")
  /\ [][\A c \in Conns :
          (clients[c] # "CLOSED" /\ clients'[c] = "CLOSED" /\ relay'.up)
            => \A d \in Conns \ {c} : outbox'[d] = outbox[d]]_vars

\* A connection has closed while an envelope was on its way to another one,
\* which still has it; a later broadcast has not happened yet.
C14_Witness ==
  /\ ev.op = "close"
  /\ \E d \in Conns : d # ev.conn /\ outbox[d] # <<>>

\* C15: the relay keeps no envelope: a connection that registers after an
\* envelope was broadcast is sent nothing until the next message arrives.
C15_NoReplay ==
  ev.op = "connection" => outbox[ev.conn] = <<>>

\* A connection has registered while a broadcast envelope was still on its
\* way to another connection.
C15_Witness ==
  /\ ev.op = "connection" /\ outbox[ev.conn] = <<>>
  /\ \E d \in Conns : outbox[d] # <<>>

\* --------------------------------------------------- one page: claims
Page == peer["left"]

\* The key material of a page: its keypair, the stored peer public key and
\* the session key.
KeyMaterial(s) == <<s.myKeys, s.myPubRaw, s.peerPubRaw, s.aesKey>>

IndexOf(log, line) == {i \in 1..Len(log) : log[i] = line}

\* ---- C16 ----------------------------------------------------------------
\* C16: a click on Send on a page that holds no session key is rejected:
\* nothing is handed to the socket, nothing is added to the conversation,
\* and the keypair, the stored peer key and the (absent) session key are
\* what they were.
C16_SendWithoutKeyRejected ==
  Page.aesKey = Absent =>
    \A typed \in Typed, draw \in Draws :
      LET run == sendBtnOnclick("left", typed, draw)
      IN /\ run.out = Absent
         /\ KeyMaterial(run.page) = KeyMaterial(Page)
         /\ run.page.messages = Page.messages
         /\ run.page.log = Page.log

\* Send was clicked on a page with a keypair and no session key, and was
\* turned down.
C16_Witness ==
  /\ Page.alert = "Shared AES key not ready."
  /\ Page.aesKey = Absent /\ Page.myKeys # Absent
  /\ Page.messages = <<>> /\ inbox["right"] = <<>>

\* ---- C17 ----------------------------------------------------------------
\* C17: while a page handles a public key whose bytes fail import - when it
\* takes the envelope from the socket and when the import fails - its
\* keypair, its stored peer public key and its session key stay exactly
\* what they were, and the page is left without a key it did not have.
C17_FailedImportChangesNothing ==
  [][/\ ( /\ inbox["left"] # <<>>
          /\ inbox'["left"] = Tail(inbox["left"])
          /\ Head(inbox["left"]).type = "pubkey"
          /\ importRaw(base64ToArrayBuffer(Head(inbox["left"]).pub)) = ImportError )
         => KeyMaterial(peer'["left"]) = KeyMaterial(peer["left"])
     /\ peer'["left"].log = Append(peer["left"].log, "Error deriving shared key")
         => KeyMaterial(peer'["left"]) = KeyMaterial(peer["left"])]_vars

\* ---- C18 ----------------------------------------------------------------
\* C18: a cipher envelope that fails to decrypt leaves the keypair, the
\* session key and the enabled send button as they were; on a page that has
\* seen such a failure an envelope sealed under its session key still
\* decrypts to its plaintext, and a send on the open socket still hands
\* over an envelope that opens under the session key to the text typed.
C18_DecryptFailureKeepsSession ==
  Page.aesKey # Absent =>
    /\ \A env \in ArrivingCiphers :
         ~decryptMessage(Page.aesKey[1], env.iv, env.ct).ok =>
           LET after == handleMessageCipher(Page, env)
           IN /\ KeyMaterial(after) = KeyMaterial(Page)
              /\ after.send = Page.send
              /\ after.messages = Page.messages
    /\ IndexOf(Page.log, "Failed to decrypt incoming message") # {} =>
         \A draw \in Draws :
           /\ handleMessageCipher(Page,
                 CipherMsg("right", Part006Encrypt(Page.aesKey[1], Hello,
                                                   getRandomValues(draw)))).messages
                = Append(Page.messages, [who |-> "right", body |-> Hello])
           /\ Page.ws = "open" =>
                LET run == sendBtnOnclick("left", Hello, draw)
                IN /\ run.out # Absent
                   /\ decryptMessage(Page.aesKey[1], run.out[1].iv, run.out[1].ct)
                        = [ok |-> TRUE, text |-> Hello]

\* A decryption failed; after it the page decrypted an envelope and then
\* sent one.
C18_Witness ==
  \E i \in IndexOf(Page.log, "Failed to decrypt incoming message"),
     j \in IndexOf(Page.log, "Decrypted incoming message."),
     k \in IndexOf(Page.log, "Sent encrypted message (relayed).") :
    i < j /\ j < k

\* ---- C19 ----------------------------------------------------------------
\* C19: when a page that holds a session key finishes the derivation it
\* started for a newly received peer public key, the session key it
\* installs is one derived from a private key of its own and that peer
\* public key; sends and receives use the installed key.
C19_RederivedKeyReplaces ==
  [][\A i \in 1..MaxClicks :
       ( /\ i <= Len(tasks["left"])
         /\ tasks["left"][i].phase = "key"
         /\ tasks'["left"] = RemoveAt(tasks["left"], i)
         /\ peer["left"].aesKey # Absent
         /\ peer'["left"].log = Append(peer["left"].log,
                                 "Derived AES-GCM (256) shared key via HKDF-SHA256.") )
       => \E own \in Scalars, mine \in Scalars :
            peer'["left"].aesKey =
              Some(Part006Derive(own, exportRaw(genECDH(mine).publicKey),
                                 tasks["left"][i].raw))]_vars

\* ---- C20 ----------------------------------------------------------------
\* C20: every session key a page installs is made of one received peer
\* public key: the shared secret and the agreement salt come from the same
\* public key, also when a second one arrives while a derivation is under
\* way.
C20_DerivationAtomic ==
  Page.aesKey # Absent =>
    \E raw \in PubkeyBytes, own \in Scalars, mine \in Scalars :
      /\ importRaw(raw) # ImportError
      /\ Page.aesKey[1] =
           Hkdf(deriveBits(own, importRaw(raw)),
                Part006Salt(exportRaw(genECDH(mine).publicKey), raw), Part006Info)

\* ---- C21 ----------------------------------------------------------------
\* The page takes the envelope at the head of its inbox from the socket.
Takes(kind) ==
  /\ inbox["left"] # <<>>
  /\ inbox'["left"] = Tail(inbox["left"])
  /\ kind[Head(inbox["left"]).type]

\* C21: a page that takes a cipher envelope whose target does not name it
\* (another identity, or none) neither tries to decrypt it nor shows it.
C21_OnlyAddresseeDecrypts ==
  [][(Takes([t \in {"pubkey", "cipher", "hello", "theme", Undefined} |-> t = "cipher"])
        /\ Head(inbox["left"]).target # "left")
      => /\ peer'["left"].messages = peer["left"].messages
         /\ peer'["left"].log \notin
              {Append(peer["left"].log, "Decrypted incoming message."),
               Append(peer["left"].log, "Failed to decrypt incoming message")}]_vars

\* ---- C22 ----------------------------------------------------------------
Contains(bytes, part) ==
  \E i \in 1..(Len(bytes) - Len(part) + 1) : SubSeq(bytes, i, i + Len(part) - 1) = part

\* C22: what the page hands to the socket is, for Send public key, an
\* envelope of kind pubkey with the page's name and the exported public key
\* of a keypair and nothing else, and for Send, an envelope of kind cipher
\* with the page's name, the iv and a ciphertext that opens under the session
\* key and does not contain the text; no private key, shared secret or
\* session key is a property of either.
C22_NoSecretOnTheWire ==
  /\ LET run == sendPubBtnOnclick("left")
     IN run.out # Absent =>
          /\ \E scalar \in Scalars :
               run.out[1] = PubkeyMsg("left", btoa(exportRaw(genECDH(scalar).publicKey)))
          /\ DOMAIN run.out[1] = {"type", "name", "pub", "iv", "ct", "target"}
          /\ run.out[1].iv = <<>> /\ run.out[1].ct = <<>>
  /\ \A typed \in Typed, draw \in Draws :
       LET run == sendBtnOnclick("left", typed, draw)
       IN run.out # Absent =>
            LET env == run.out[1]
                bytes == atob(env.ct)
                opened == AesGcmDecrypt(Page.aesKey[1], getRandomValues(draw),
                                        Utf8Encode(ChatAad), bytes)
            IN /\ env.type = "cipher" /\ env.name = "left" /\ env.pub = <<>>
               /\ DOMAIN env = {"type", "name", "pub", "iv", "ct", "target"}
               /\ env.iv = arrayBufferToBase64(getRandomValues(draw))
               /\ opened.ok /\ opened.data = Utf8Encode(Trim(typed))
               /\ ~Contains(bytes, Utf8Encode(Trim(typed)))

\* The page has broadcast its public key and has sent a message.
C22_Witness ==
  /\ IndexOf(Page.log, "Sent public key (broadcast).") # {}
  /\ IndexOf(Page.log, "Sent encrypted message (relayed).") # {}

\* ---- C23 ----------------------------------------------------------------
\* C23: a page that takes an envelope that is neither pubkey nor cipher
\* keeps its keypair, its stored peer public key and its session key, starts
\* no derivation and sends nothing.
C23_UnknownKindIgnored ==
  [][Takes([t \in {"pubkey", "cipher", "hello", "theme", Undefined} |->
              t \notin {"pubkey", "cipher"}])
      => /\ KeyMaterial(peer'["left"]) = KeyMaterial(peer["left"])
         /\ peer'["left"].messages = peer["left"].messages
         /\ tasks' = tasks
         /\ inbox'["right"] = inbox["right"]]_vars

\* A page that holds a session key has taken a presence message.
C23_Witness ==
  /\ IndexOf(Page.log, "Peer presence") # {}
  /\ Page.aesKey # Absent /\ inbox["left"] = <<>>

\* ---- C24 ----------------------------------------------------------------
\* C24: a send on a page that holds a session key and an open socket hands
\* over one envelope of kind cipher, from the page, with the other page as
\* its target, and with the iv and ciphertext of one encryption under the
\* session key.
C24_SendBuildsAddressedEnvelope ==
  (Page.aesKey # Absent /\ Page.ws = "open") =>
    \A draw \in Draws :
      LET run == sendBtnOnclick("left", Hello, draw)
          enc == Part006Encrypt(Page.aesKey[1], Hello, getRandomValues(draw))
      IN /\ run.out # Absent
         /\ run.out[1].type = "cipher"
         /\ run.out[1].name = "left"
         /\ run.out[1].target = Other("left")
         /\ run.out[1].iv = enc.iv /\ run.out[1].ct = enc.ct

\* ---- C27 ----------------------------------------------------------------
\* C27: whenever the page can broadcast its public key, the key in the
\* envelope is the exported public key of the keypair the page holds.
C27_BroadcastsCurrentKey ==
  (Page.sendPub /\ Page.myKeys # Absent) =>
    LET run == sendPubBtnOnclick("left")
    IN run.out # Absent =>
         atob(run.out[1].pub) = exportRaw(Page.myKeys[1].publicKey)

\* ---- C28 ----------------------------------------------------------------
\* C28: a page that holds its own keypair and a received peer public key
\* that imports comes to hold a session key, with no further envelope from
\* the other peer; the page is let off when a later envelope or click takes
\* the keypair or the peer key away again.
HoldsBothKeys ==
  /\ Page.myKeys # Absent /\ Page.myPubRaw # Absent
  /\ Page.peerPubRaw # Absent
  /\ importRaw(Page.peerPubRaw[1]) # ImportError

C28_EventuallySessionKey ==
  HoldsBothKeys ~> (Page.aesKey # Absent \/ ~HoldsBothKeys)

\* ---- C29 ----------------------------------------------------------------
\* C29: with no key generation or derivation under way, the session key of
\* the page is one whose shared secret was made with the private key of the
\* keypair the page holds.
C29_KeyOfCurrentKeypair ==
  (Page.aesKey # Absent /\ Page.myKeys # Absent /\ tasks["left"] = <<>>) =>
    \E raw \in PubkeyBytes :
      /\ importRaw(raw) # ImportError
      /\ Page.aesKey[1].ikm = deriveBits(Page.myKeys[1].privateKey, importRaw(raw))

\* ---- C30 ----------------------------------------------------------------
\* C30: when every envelope has been taken and every derivation has run to
\* its end, the session key of the page is one derived from the peer public
\* key it received last.
C30_LastReceivedKeyWins ==
  ( /\ tasks["left"] = <<>> /\ inbox["left"] = <<>>
    /\ Page.aesKey # Absent /\ Page.peerPubRaw # Absent
    /\ importRaw(Page.peerPubRaw[1]) # ImportError )
    => \E own \in Scalars, mine \in Scalars :
         Page.aesKey[1] = Part006Derive(own, exportRaw(genECDH(mine).publicKey),
                                        Page.peerPubRaw[1])

\* ---- C32 ----------------------------------------------------------------
\* C32: the page shows decrypted messages in the order in which their
\* envelopes arrived: of two messages of the peer in the chat, the one whose
\* envelope arrived first stands first.
FromPeer(messages) == SelectSeq(messages, LAMBDA m : m.who # "You")

C32_ShownInArrivalOrder ==
  LET shown == FromPeer(Page.messages)
  IN \A i, j \in 1..Len(shown) : i < j => shown[i].body[1] < shown[j].body[1]

\* ---- C33 ----------------------------------------------------------------
\* C33: in the manual-decrypt client the pending ciphertext of a panel is
\* the last cipher envelope with iv and ct that arrived for the panel, and a
\* click on Decrypt decrypts that one under the session key of the panel.
WellFormedFor(msg, side) ==
  msg.type = "cipher" /\ msg.target = side /\ msg.iv # NoField /\ msg.ct # NoField

LastFor(received, side) ==
  LET hits == SelectSeq(received, LAMBDA e : WellFormedFor(e, side))
  IN IF hits = <<>> THEN Absent
     ELSE Some([iv |-> hits[Len(hits)].iv, ct |-> hits[Len(hits)].ct])

C33_PendingIsLatest ==
  \A side \in Sides :
    LET me == manual.page.side[side]
        last == LastFor(manual.page.received, side)
    IN /\ manual.page.latestCipher[side] = last
       /\ (last # Absent /\ me.aes # Absent) =>
            LET pt == decryptAesGcmBase64(me.aes[1], last[1].iv, last[1].ct, Absent)
            IN leftDecrypt(manual.page, side).side[side].chat =
                 IF pt.ok THEN Append(me.chat, Bubble("decrypted", pt.text))
                 ELSE me.chat

C33_Witness ==
  \E side \in Sides :
    LET hits == SelectSeq(manual.page.received, LAMBDA e : WellFormedFor(e, side))
        chat == manual.page.side[side].chat
    IN /\ Len(hits) = 2 /\ hits[1].iv # hits[2].iv
       /\ chat # <<>> /\ chat[Len(chat)] = Bubble("decrypted", Hello)

\* ---- C35 ----------------------------------------------------------------
\* C35: with no open socket a click on Send hands nothing to the relay,
\* shows nothing as sent and keeps the typed text in the input box.
C35_NothingShownUnlessSent ==
  \A side \in Sides, typed \in Typed, draw \in Draws :
    manual.page.ws # "open" =>
      LET after == leftSend(manual.page, side, typed, draw)
      IN /\ after.out = manual.page.out
         /\ after.side[side].chat = manual.page.side[side].chat
         /\ after.side[side].input = typed

\* ---- C36 ----------------------------------------------------------------
\* C36: a panel holds a session key only if it holds a keypair, and a click
\* on Derive in a panel without a keypair installs no session key.
C36_SessionKeyNeedsKeypair ==
  \A side \in Sides :
    LET me == manual.page.side[side]
    IN /\ me.aes # Absent => me.keys # Absent
       /\ me.keys = Absent =>
            \A pasted \in Pasted \cup {<<>>} :
              leftDerive(manual.page, side, pasted).side[side].aes = Absent

C36_Witness ==
  \E side \in Sides :
    /\ manual.page.side[side].keys = Absent /\ manual.page.side[side].aes = Absent
    /\ manual.page.alert = "keys missing. Generate keypair first."

\* ---- C37 ----------------------------------------------------------------
\* C37: the registry starts with the zero fingerprint for every address; a
\* registerKey sent by U sets the fingerprint of U to the hash of the key
\* given and leaves every other entry as it was; nothing else changes what
\* getKey returns.
C37_RegisterSetsOwnEntryOnly ==
  /\ \A U \in Addresses : getKey(chain.userKeys, U) = ZeroHash
  /\ [][\A U \in Addresses :
          IF chain'.last.op = "register" /\ chain'.last.result /\ chain'.last.user = U
          THEN getKey(chain'.userKeys, U) = Keccak256(atob(chain'.last.key))
          ELSE getKey(chain'.userKeys, U) = getKey(chain.userKeys, U)]_vars

\* U has registered a second key after another address registered one.
C37_Witness ==
  /\ chain.last.op = "register" /\ chain.last.result
  /\ \E V \in Addresses \ {chain.last.user} :
       /\ getKey(chain.userKeys, V) # ZeroHash
       /\ getKey(chain.userKeys, V) # getKey(chain.userKeys, chain.last.user)

\* ---- C38 ----------------------------------------------------------------
\* C38: every client of the repository derives the same session key from
\* the same exchange of public keys: whatever client peer B runs, its key
\* is the key peer A derived.
C38_SameKeyAcrossClients ==
  (dh.mode = "agree" /\ dh.keyA # Absent) =>
    \A client \in {"crypto.js", "relay chat"} :
      SessionKey(client, dh.b, exportRaw(dh.a.publicKey)) = dh.keyA[1]

\* ---- C39 ----------------------------------------------------------------
\* C39: base64ToArrayBuffer(arrayBufferToBase64(b)) is b: a buffer that was
\* encoded and decoded again has the bytes it had.
C39_Base64RoundTrip ==
  (dh.mode = "base64" /\ dh.back # Absent) => dh.back[1] = dh.b

\* A buffer of more than one group, with padding, was encoded and decoded.
C39_Witness ==
  /\ dh.mode = "base64" /\ dh.back # Absent
  /\ Len(dh.b) = 4 /\ dh.b[4] = 255 /\ dh.text[1][Len(dh.text[1])] = B64Pad

\* ---- C31 ----------------------------------------------------------------
\* C31: the relay keeps each sender's order: of two envelopes of one sender
\* that a connection has received, the one sent first was received first.
FromSender(stream, c) == SelectSeq(stream, LAMBDA m : m.payload[1] = c)

C31_SenderOrderKept ==
  \A d \in Conns, c \in Conns :
    LET seen == FromSender(wire.got[d], c)
    IN \A i, j \in 1..Len(seen) : i < j => seen[i].payload[2] < seen[j].payload[2]

C31_Witness ==
  \E d \in Conns, c \in Conns : Len(FromSender(wire.got[d], c)) >= 2

\* ---- C25 ----------------------------------------------------------------
\* C25: when the timer of a panel fails to decrypt what it took from the
\* receive buffer, the panel shows it: a bubble is added or an alert is
\* raised.
C25_FailureIsObservable ==
  [][\A side \in Panels :
       ( /\ demo.timer = side /\ demo'.panel[side].recvbuf = Absent
         /\ ~aesDec(demo.panel[side].aes[1], demo.held[1].iv, demo.held[1].ct).ok )
       => \/ demo'.panel[side].chat # demo.panel[side].chat
          \/ demo'.panel[side].alert # demo.panel[side].alert]_vars

\* ---- C34 ----------------------------------------------------------------
\* C34: a payload in the receive buffer of a panel that holds a session key
\* is handed to decrypt once before it is cleared: the timer clears no
\* payload but the one whose decryption it has just waited for.
C34_ClearedOnlyAfterDecrypt ==
  [][\A side \in Panels :
       ( /\ demo.panel[side].aes # Absent /\ demo.panel[side].recvbuf # Absent
         /\ demo'.panel[side].recvbuf = Absent )
       => demo.timer = side /\ demo.held = demo.panel[side].recvbuf]_vars

\* ---- C26 ----------------------------------------------------------------
\* C26: verifyOnChainKey(K, U) returns true exactly when the fingerprint the
\* contract stores for U is the one registering K produces.
C26_VerifyMatchesRegistration ==
  chain.last.op = "verify" =>
    LET K == chain.last.key
        U == chain.last.user
    IN chain.last.result <=>
         /\ atob(K) # B64Error
         /\ getKey(chain.userKeys, U) = getKey(registerKey(chain.userKeys, U, atob(K)), U)

\* -------------------------------------------------------- chat page claims
\* What a page logged, the presence lines of the other page left out.
Steps(p) == SelectSeq(peer[p].log, LAMBDA line : line # "Peer presence")

\* Left generated a keypair and broadcast its public key; right received
\* it, then generated its own keypair and broadcast its public key; left
\* received it and sent "hello"; right has handled that envelope and no
\* async function is still suspended.
LeftRightSequenceDone ==
  /\ Steps("left") = <<"Connected to relay server",
                       "ECDH keypair generated (P-256).",
                       "Sent public key (broadcast).",
                       "Received peer public key",
                       "Derived AES-GCM (256) shared key via HKDF-SHA256.",
                       "Sent encrypted message (relayed).">>
  /\ peer["left"].messages = <<[who |-> "You", body |-> Hello]>>
  /\ Len(Steps("right")) = 5
  /\ SubSeq(Steps("right"), 1, 4) = <<"Connected to relay server",
                                      "Received peer public key",
                                      "ECDH keypair generated (P-256).",
                                      "Sent public key (broadcast).">>
  /\ \A p \in Peers : inbox[p] = <<>> /\ tasks[p] = <<>>

\* C2: after the left/right sequence both pages hold a session key, the two
\* keys are identical, and right has decrypted left's cipher envelope to
\* exactly "hello".
C2_LeftRightHandshake ==
  LeftRightSequenceDone =>
    /\ peer["left"].aesKey # Absent
    /\ peer["right"].aesKey # Absent
    /\ peer["left"].aesKey = peer["right"].aesKey
    /\ peer["right"].messages = <<[who |-> "left", body |-> Hello]>>
====
